---------------------------- MODULE Spec2Model ----------------------------
(***************************************************************************)
(* Model of the @tokenring-ai/docker package: the connection command-line  *)
(* prefix builders, the dockerRun argument-array builder, the list tools'  *)
(* result records, and the DockerSandboxProvider lifecycle operations      *)
(* issued against a container runtime.                                     *)
(*                                                                         *)
(* A command line is a sequence of tokens.  A token is a record            *)
(*   [flag |-> literal text written by the code,                           *)
(*    val  |-> the dynamic value appended to it ("" when none),            *)
(*    esc  |-> TRUE iff the value went through shellEscape]                *)
(* JavaScript undefined is the value Undefined; a string is falsy when     *)
(* it is Undefined or empty.                                               *)
(***************************************************************************)
EXTENDS Integers, Sequences, FiniteSets, Bags, TLC

VARIABLES
    options,     \* DockerService.options: the connection configuration
    cmdline,     \* the last command prefix generated by a builder
    builder,     \* which builder generated cmdline
    pending,     \* the tool call awaiting its subprocess (Idle when none)
    spawns,      \* subprocesses spawned by the current / last tool call
    result,      \* what the last settled tool call returned or threw
    containers,  \* container runtime: the state of every container id
    assigned,    \* container runtime: the ids it has handed out
    calls,       \* sandbox provider calls awaiting their subprocess (a bag)
    last,        \* the most recently settled sandbox provider call
    trail,       \* per handle: the provider results its caller has seen
    app          \* the application the plugin is installed into

buildVars == <<cmdline, builder, app>>
toolVars == <<pending, spawns, result>>
sandboxVars == <<containers, assigned, calls, last, trail>>
vars == <<options, cmdline, builder, pending, spawns, result,
          containers, assigned, calls, last, trail, app>>

---------------------------------------------------------------------------
(* JavaScript values *)

Undefined == "<undefined>"

Truthy(s) == s # Undefined /\ s # ""

DefaultSocket == "unix:///var/run/docker.sock"

---------------------------------------------------------------------------
(* Tokens and shell escaping *)

\* A literal word of the command, written by the code itself.
Word(s) == [flag |-> s, val |-> "", esc |-> FALSE]

\* flag + shellEscape(v): the value is quoted for the shell.
shellEscape(flag, v) == [flag |-> flag, val |-> v, esc |-> TRUE]

\* flag + v: the value is placed as-is (argument-array path).
Raw(flag, v) == [flag |-> flag, val |-> v, esc |-> FALSE]

Flags(cmd) == [i \in 1..Len(cmd) |-> cmd[i].flag]

\* The positions of cmd at which the literal f stands.
Positions(cmd, f) == {i \in 1..Len(cmd) : cmd[i].flag = f}

Has(cmd, f) == Positions(cmd, f) # {}

---------------------------------------------------------------------------
(* Connection configuration *)

Hosts == {Undefined, "", DefaultSocket, "tcp://10.0.0.5:2376"}
CACerts == {Undefined, "", "/certs/ca.pem"}
Certs == {Undefined, "", "/certs/cert.pem"}
Keys == {Undefined, "", "/certs/key.pem"}

\* tls.present = FALSE is `tls: undefined`, which has no verify and no paths.
NoTls == [present |-> FALSE, verify |-> FALSE, caCert |-> Undefined,
          cert |-> Undefined, key |-> Undefined]

DockerConfigSchema ==
    [host : Hosts,
     tls : [present : {TRUE}, verify : BOOLEAN,
            caCert : CACerts, cert : Certs, key : Keys] \cup {NoTls}]

\* options.tls?.verify
TlsVerify(o) == o.tls.present /\ o.tls.verify

\* A builder that emits the certificate flags without looking at verify.
buildDockerCmd_CertsUnconditional(o) ==
    <<Word("docker")>>
    \o (IF Truthy(o.host) THEN <<Word("-H"), shellEscape("", o.host)>> ELSE <<>>)
    \o (IF TlsVerify(o) THEN <<Word("--tls")>> ELSE <<>>)
    \o (IF Truthy(o.tls.caCert) THEN <<shellEscape("--tlscacert=", o.tls.caCert)>> ELSE <<>>)
    \o (IF Truthy(o.tls.cert) THEN <<shellEscape("--tlscert=", o.tls.cert)>> ELSE <<>>)
    \o (IF Truthy(o.tls.key) THEN <<shellEscape("--tlskey=", o.tls.key)>> ELSE <<>>)

\* DockerService.buildDockerCmd() of the current service.
buildDockerCmd(o) ==
    <<Word("docker")>>
    \o (IF Truthy(o.host) THEN <<Word("-H"), shellEscape("", o.host)>> ELSE <<>>)
    \o (IF TlsVerify(o)
        THEN <<Word("--tls")>>
             \o (IF Truthy(o.tls.caCert) THEN <<shellEscape("--tlscacert=", o.tls.caCert)>> ELSE <<>>)
             \o (IF Truthy(o.tls.cert) THEN <<shellEscape("--tlscert=", o.tls.cert)>> ELSE <<>>)
             \o (IF Truthy(o.tls.key) THEN <<shellEscape("--tlskey=", o.tls.key)>> ELSE <<>>)
        ELSE <<>>)

\* The earlier DockerService / DockerSandboxProvider constructors take the
\* flat parameters {host, tlsVerify, tlsCACert, tlsCert, tlsKey} and default
\* host to the local socket and tlsVerify to false.
DockerServiceParams(o) ==
    [host |-> IF o.host = Undefined THEN DefaultSocket ELSE o.host,
     tlsVerify |-> TlsVerify(o),
     tlsCACert |-> o.tls.caCert,
     tlsCert |-> o.tls.cert,
     tlsKey |-> o.tls.key]

\* DockerSandboxProvider constructor of the self-contained provider:
\* tlsConfig is set only when tlsVerify is true.
SandboxProviderCtor(o) ==
    LET p == DockerServiceParams(o)
    IN  [host |-> p.host,
         hasTlsConfig |-> p.tlsVerify,
         tlsCACert |-> p.tlsCACert, tlsCert |-> p.tlsCert, tlsKey |-> p.tlsKey]

\* DockerSandboxProvider.buildDockerCmd() of the self-contained provider.
SandboxBuildDockerCmd(o) ==
    LET this == SandboxProviderCtor(o)
    IN  <<Word("docker")>>
        \o (IF this.host # DefaultSocket
            THEN <<Word("-H"), shellEscape("", this.host)>> ELSE <<>>)
        \o (IF this.hasTlsConfig
            THEN <<Word("--tls")>>
                 \o (IF Truthy(this.tlsCACert) THEN <<shellEscape("--tlscacert=", this.tlsCACert)>> ELSE <<>>)
                 \o (IF Truthy(this.tlsCert) THEN <<shellEscape("--tlscert=", this.tlsCert)>> ELSE <<>>)
                 \o (IF Truthy(this.tlsKey) THEN <<shellEscape("--tlskey=", this.tlsKey)>> ELSE <<>>)
            ELSE <<>>)

\* DockerService constructor, getHost() and getTLSConfig() of the earlier
\* service, and the prefix the tools build inline from them.
InlineDockerCmd(o) ==
    LET svc == DockerServiceParams(o)
    IN  <<Word("docker")>>
        \o (IF svc.host # DefaultSocket
            THEN <<Word("-H"), shellEscape("", svc.host)>> ELSE <<>>)
        \o (IF svc.tlsVerify
            THEN <<Word("--tls")>>
                 \o (IF Truthy(svc.tlsCACert) THEN <<shellEscape("--tlscacert=", svc.tlsCACert)>> ELSE <<>>)
                 \o (IF Truthy(svc.tlsCert) THEN <<shellEscape("--tlscert=", svc.tlsCert)>> ELSE <<>>)
                 \o (IF Truthy(svc.tlsKey) THEN <<shellEscape("--tlskey=", svc.tlsKey)>> ELSE <<>>)
            ELSE <<>>)

---------------------------------------------------------------------------
(* Plugin installation *)

ProviderNames == {"box", "alt"}
ProviderTypes == {"docker", "other"}

\* config.sandbox: absent, or the providers it configures, each with its
\* type.  providers maps a name to its type, "" for a name not configured.
NoSandboxConfig == [present |-> FALSE, providers |-> [n \in ProviderNames |-> ""]]

SandboxServiceConfigs ==
    {NoSandboxConfig}
    \cup {[present |-> TRUE, providers |-> p] :
            p \in [ProviderNames -> ProviderTypes \cup {""}]}

\* The application before install(app, config) ran.  docker = config.docker
\* is present; chat / sandbox = the service is available; a waiter is
\* "none", "waiting" once waitForService was called, "called" once its
\* callback ran; services = the DockerService instances added; toolsAdded =
\* the calls of addTools; registered[n] = the DockerService instances held
\* by the providers registered under n.
NoApp ==
    [docker |-> FALSE, sandboxConfig |-> NoSandboxConfig, installed |-> FALSE,
     chat |-> FALSE, sandbox |-> FALSE,
     chatWaiter |-> "none", sandboxWaiter |-> "none",
     services |-> 0, toolsAdded |-> 0,
     registered |-> [n \in ProviderNames |-> <<>>]]

\* A callback that registers a provider under every configured name.
registerProviders_AnyType(config, registered, dockerService) ==
    [n \in ProviderNames |->
        IF config.providers[n] # ""
        THEN Append(registered[n], dockerService) ELSE registered[n]]

\* The SandboxService callback of install: for each configured provider
\* whose type is "docker", registerProvider(name, new
\* DockerSandboxProvider(dockerService)).
registerProviders(config, registered, dockerService) ==
    [n \in ProviderNames |->
        IF config.providers[n] = "docker"
        THEN Append(registered[n], dockerService) ELSE registered[n]]

---------------------------------------------------------------------------
(* Numbers and text *)

Min(a, b) == IF a < b THEN a ELSE b
Max(a, b) == IF a > b THEN a ELSE b

\* Text read from a subprocess is a sequence of characters.  "a" and "b"
\* each stand for one complete JSON object, "x" for text that is not JSON.
Chars == {"a", "b", "x", " ", "\n"}
Whitespace == {" ", "\n"}

RECURSIVE trimStart(_)
trimStart(s) ==
    IF s # <<>> /\ Head(s) \in Whitespace THEN trimStart(Tail(s)) ELSE s

RECURSIVE trimEnd(_)
trimEnd(s) ==
    IF s # <<>> /\ s[Len(s)] \in Whitespace
    THEN trimEnd(SubSeq(s, 1, Len(s) - 1)) ELSE s

\* String.prototype.trim
trim(s) == trimEnd(trimStart(s))

\* String.prototype.split("\n"): the empty string splits into one empty line.
RECURSIVE splitLines(_, _)
splitLines(s, cur) ==
    IF s = <<>> THEN <<cur>>
    ELSE IF Head(s) = "\n" THEN <<cur>> \o splitLines(Tail(s), <<>>)
    ELSE splitLines(Tail(s), Append(cur, Head(s)))

split(s) == splitLines(s, <<>>)

\* A filter that keeps every line, blank ones included.
filterNonEmpty_KeepAll(lines) == lines

\* Array.prototype.filter((line) => line.trim())
RECURSIVE filterNonEmpty(_)
filterNonEmpty(lines) ==
    IF lines = <<>> THEN <<>>
    ELSE (IF trim(Head(lines)) # <<>> THEN <<Head(lines)>> ELSE <<>>)
         \o filterNonEmpty(Tail(lines))

\* JSON.parse accepts a line iff, whitespace aside, it is one JSON value.
JsonValid(line) == trim(line) \in {<<"a">>, <<"b">>}
JsonParse(line) == trim(line)[1]

\* stdout.trim().split("\n").filter((line) => line.trim())
NonEmptyLines(stdout) == filterNonEmpty(split(trim(stdout)))

---------------------------------------------------------------------------
(* Tool calls *)

NoExit == -1

\* A containers / images argument: undefined, one string, or an array
\* of strings.  items holds the string, or the elements of the array.
NoArg == [kind |-> "undefined", items |-> <<>>]
StringArg(str) == [kind |-> "string", items |-> <<str>>]
ArrayArg(arr) == [kind |-> "array", items |-> arr]

Idle ==
    [tool |-> "none", cmd |-> <<>>, supplied |-> 0, timeoutSeconds |-> 0,
     timeoutMs |-> 0, format |-> "", quiet |-> FALSE, missing |-> FALSE,
     server |-> "", secret |-> "", emitted |-> <<>>,
     action |-> "", composeFile |-> "", arg |-> NoArg, containerList |-> <<>>,
     username |-> "", passwordStdin |-> FALSE, input |-> Undefined]

\* A result: thrown = the call rejected; otherwise the returned record.
\* hasOk = the record has an `ok` field; isArray = Array.isArray(images).
NoResult ==
    [tool |-> "none", thrown |-> FALSE, error |-> "", hasOk |-> FALSE,
     ok |-> FALSE, exitCode |-> NoExit, parseError |-> FALSE,
     isArray |-> FALSE, items |-> <<>>, text |-> <<>>, count |-> 0,
     stdout |-> <<>>, procExit |-> NoExit, procFailed |-> FALSE,
     missing |-> FALSE, secret |-> "", emitted |-> <<>>, thrownText |-> <<>>,
     action |-> "", composeFile |-> "", containers |-> <<>>]

Throw(tool, message) ==
    [NoResult EXCEPT !.tool = tool, !.thrown = TRUE, !.error = message]

TimeoutInputs == {-1, 0, 3, 60, 2000}

MaxEnv == 1
MaxOut == 4

\* Object.entries(env): n distinct variables, in insertion order.
Env(n) == [i \in 1..n |-> "K" \o ToString(i) \o "=v"]
Envs == {Env(n) : n \in 0..MaxEnv}

Stdouts == UNION {[1..n -> Chars] : n \in 0..MaxOut}

\* Array.prototype.unshift / push
Unshift(arr, items) == items \o arr
Push(arr, items) == arr \o items

\* Object.entries(env).forEach(([k, v]) => dockerArgs.push("-e", k + "=" + v))
RECURSIVE PushEnv(_, _)
PushEnv(arr, env) ==
    IF env = <<>> THEN arr
    ELSE PushEnv(Push(arr, <<Word("-e"), Raw("", Head(env))>>), Tail(env))

\* tools/dockerRun.ts: the dockerArgs array, built by unshift and push.
dockerRunArgs(o, image, cmd, env, workdir, mountSrc, baseOk) ==
    LET svc == DockerServiceParams(o)
        a0 == <<Word("run"), Word("--rm")>>
        a1 == IF svc.host # DefaultSocket
              THEN Unshift(a0, <<Word("-H"), Raw("", svc.host)>>) ELSE a0
        a2 == IF svc.tlsVerify THEN Unshift(a1, <<Word("--tls")>>) ELSE a1
        a3 == IF svc.tlsVerify /\ Truthy(svc.tlsCACert)
              THEN Unshift(a2, <<Raw("--tlscacert=", svc.tlsCACert)>>) ELSE a2
        a4 == IF svc.tlsVerify /\ Truthy(svc.tlsCert)
              THEN Unshift(a3, <<Raw("--tlscert=", svc.tlsCert)>>) ELSE a3
        a5 == IF svc.tlsVerify /\ Truthy(svc.tlsKey)
              THEN Unshift(a4, <<Raw("--tlskey=", svc.tlsKey)>>) ELSE a4
        a6 == PushEnv(a5, env)
        a7 == IF Truthy(workdir) THEN Push(a6, <<Word("-w"), Raw("", workdir)>>) ELSE a6
        a8 == IF Truthy(mountSrc) /\ baseOk
              THEN Push(a7, <<Word("-v"), Raw("", "/repo:" \o mountSrc)>>) ELSE a7
    IN  Push(a8, <<Raw("", image), Word("sh"), Word("-c"), Raw("", cmd)>>)

\* Math.max(5, Math.min(timeoutSeconds || 60, 600))
dockerRunTimeout(timeoutSeconds) ==
    Max(5, Min(IF timeoutSeconds # 0 THEN timeoutSeconds ELSE 60, 600))

\* ["timeout", timeout + "s", "docker", ...dockerArgs]
dockerRunFinalCommand(timeout, dockerArgs) ==
    <<Word("timeout"), Raw("", ToString(timeout) \o "s"), Word("docker")>> \o dockerArgs

\* dockerRun of the agent-based package: the dockerArgs array.
agentDockerRunArgs(o, image, cmd) ==
    LET a0 == <<Word("run"), Word("--rm")>>
        a1 == IF Truthy(o.host)
              THEN Unshift(a0, <<Word("-H"), Raw("", o.host)>>) ELSE a0
        a2 == IF TlsVerify(o) THEN Unshift(a1, <<Word("--tls")>>) ELSE a1
        a3 == IF TlsVerify(o) /\ Truthy(o.tls.caCert)
              THEN Unshift(a2, <<Raw("--tlscacert=", o.tls.caCert)>>) ELSE a2
        a4 == IF TlsVerify(o) /\ Truthy(o.tls.cert)
              THEN Unshift(a3, <<Raw("--tlscert=", o.tls.cert)>>) ELSE a3
        a5 == IF TlsVerify(o) /\ Truthy(o.tls.key)
              THEN Unshift(a4, <<Raw("--tlskey=", o.tls.key)>>) ELSE a4
    IN  Push(a5, <<Raw("", image), Word("sh"), Word("-c"), Raw("", cmd)>>)

\* ["timeout", timeout + "s", "docker -v (pwd):/workdir:rw -w /workdir ",
\*  ...dockerArgs], written out word by word as finalCommand.join(" ").
agentDockerRunFinalCommand(timeout, dockerArgs) ==
    <<Word("timeout"), Raw("", ToString(timeout) \o "s"), Word("docker"),
      Word("-v"), Word("(pwd):/workdir:rw"), Word("-w"), Word("/workdir")>>
    \o dockerArgs

\* What filesystem.executeCommand hands back: a result or an exception.
RunOutcomes ==
    {[thrown |-> FALSE, ok |-> TRUE, exitCode |-> 0, stdout |-> <<"a", "\n">>],
     [thrown |-> FALSE, ok |-> FALSE, exitCode |-> 1, stdout |-> <<>>],
     [thrown |-> FALSE, ok |-> FALSE, exitCode |-> 124, stdout |-> <<>>],
     [thrown |-> TRUE, ok |-> FALSE, exitCode |-> NoExit, stdout |-> <<>>]}

\* The record dockerRun returns, or the error it throws.
dockerRunResult(tool, r) ==
    IF r.thrown THEN [Throw(tool, "executeCommand failed") EXCEPT !.procFailed = TRUE]
    ELSE [NoResult EXCEPT !.tool = tool, !.hasOk = TRUE, !.ok = r.ok,
                          !.exitCode = r.exitCode, !.stdout = trim(r.stdout),
                          !.error = IF r.ok THEN "" ELSE "Command failed with exit code",
                          !.procExit = r.exitCode]

Formats == {"json", "table", "{{.ID}}"}

\* The flag arguments a list call is made with: none set, or all set.
ListFlagSets ==
    {[all |-> FALSE, extra |-> FALSE, filter |-> Undefined],
     [all |-> TRUE, extra |-> TRUE, filter |-> "dangling=true"]}

\* Math.max(5, Math.min(timeoutSeconds, 120))
listTimeout(timeoutSeconds) == Max(5, Min(timeoutSeconds, 120))

\* timeoutSeconds values a caller may supply.
SuppliedTimeouts ==
    {-100, -1, 0, 1, 4, 5, 6, 59, 60, 61, 119, 120, 121, 299, 300, 301,
     599, 600, 601, 1799, 1800, 1801, 100000}

\* A clamp that has lost its lower bound.
clampTimeout_NoFloor(timeoutSeconds, ceiling) == Min(timeoutSeconds, ceiling)

\* A clamp that has lost its upper bound.
clampTimeout_NoCeiling(timeoutSeconds, ceiling) == Max(5, timeoutSeconds)

\* Math.max(5, Math.min(timeoutSeconds, ceiling))
clampTimeout(timeoutSeconds, ceiling) == Max(5, Min(timeoutSeconds, ceiling))

\* buildImage: const timeout = Math.max(5, Math.min(timeoutSeconds, 1800))
buildImageTimeout(timeoutSeconds) == clampTimeout(timeoutSeconds, 1800)

\* pushImage: const timeout = Math.max(5, Math.min(timeoutSeconds, 1800))
pushImageTimeout(timeoutSeconds) == clampTimeout(timeoutSeconds, 1800)

\* dockerStack: const timeout = Math.max(5, Math.min(timeoutSeconds, 600))
dockerStackTimeout(timeoutSeconds) == clampTimeout(timeoutSeconds, 600)

\* getContainerLogs: const timeout = Math.max(5, Math.min(timeoutSeconds, 300))
getContainerLogsTimeout(timeoutSeconds) == clampTimeout(timeoutSeconds, 300)

\* execInContainer: const timeout = Math.max(5, Math.min(timeoutSeconds, 300))
execInContainerTimeout(timeoutSeconds) == clampTimeout(timeoutSeconds, 300)

\* pruneImages: const timeout = Math.max(5, Math.min(timeoutSeconds, 300))
pruneImagesTimeout(timeoutSeconds) == clampTimeout(timeoutSeconds, 300)

\* pruneVolumes: const timeout = Math.max(5, Math.min(timeoutSeconds, 300))
pruneVolumesTimeout(timeoutSeconds) == clampTimeout(timeoutSeconds, 300)

\* getContainerStats: const timeout = Math.max(5, Math.min(timeoutSeconds, 60))
getContainerStatsTimeout(timeoutSeconds) == clampTimeout(timeoutSeconds, 60)

\* startContainer: const timeout = Math.max(5, Math.min(timeoutSeconds, 120))
startContainerTimeout(timeoutSeconds) == clampTimeout(timeoutSeconds, 120)

\* stopContainer: const timeout = Math.max(5, Math.min(timeoutSeconds, 120))
stopContainerTimeout(timeoutSeconds) == clampTimeout(timeoutSeconds, 120)

\* removeContainer: const timeout = Math.max(5, Math.min(timeoutSeconds, 120))
removeContainerTimeout(timeoutSeconds) == clampTimeout(timeoutSeconds, 120)

\* removeImage: const timeout = Math.max(5, Math.min(timeoutSeconds, 120))
removeImageTimeout(timeoutSeconds) == clampTimeout(timeoutSeconds, 120)

\* tagImage: const timeout = Math.max(5, Math.min(timeoutSeconds, 120))
tagImageTimeout(timeoutSeconds) == clampTimeout(timeoutSeconds, 120)

\* createNetwork: const timeout = Math.max(5, Math.min(timeoutSeconds, 120))
createNetworkTimeout(timeoutSeconds) == clampTimeout(timeoutSeconds, 120)

\* authenticateRegistry: const timeout = Math.max(5, Math.min(timeoutSeconds, 120))
authenticateRegistryTimeout(timeoutSeconds) == clampTimeout(timeoutSeconds, 120)

\* The --format part shared by listImages and listContainers.
formatFlag(format) ==
    IF format = "json" THEN <<Word("--format"), Word("'{{json .}}'")>>
    ELSE IF format = "table" THEN <<>>
    ELSE <<Word("--format"), shellEscape("", format)>>

\* tools/listImages.ts: the command string.
listImagesCmd(o, timeout, all, quiet, digests, filter, format) ==
    <<Word("timeout"), Raw("", ToString(timeout) \o "s")>>
    \o InlineDockerCmd(o)
    \o <<Word("images")>>
    \o (IF all THEN <<Word("-a")>> ELSE <<>>)
    \o (IF quiet THEN <<Word("-q")>> ELSE <<>>)
    \o (IF digests THEN <<Word("--digests")>> ELSE <<>>)
    \o (IF Truthy(filter) THEN <<Word("--filter"), shellEscape("", filter)>> ELSE <<>>)
    \o formatFlag(format)

\* tools/listContainers.ts: the command string (limit left unset).
listContainersCmd(o, timeout, all, quiet, size, filter, format) ==
    <<Word("timeout"), Raw("", ToString(timeout) \o "s")>>
    \o InlineDockerCmd(o)
    \o <<Word("ps")>>
    \o (IF all THEN <<Word("-a")>> ELSE <<>>)
    \o (IF quiet THEN <<Word("-q")>> ELSE <<>>)
    \o (IF Truthy(filter) THEN <<Word("--filter"), shellEscape("", filter)>> ELSE <<>>)
    \o (IF size THEN <<Word("-s")>> ELSE <<>>)
    \o formatFlag(format)

\* How an execa subprocess ends.  code is NoExit when the process was
\* killed (timeout, maxBuffer, signal) and has no exit code.
ExecaFailures ==
    {[kind |-> "exit", code |-> 1, stdout |-> <<>>],
     [kind |-> "timeout", code |-> NoExit, stdout |-> <<>>],
     [kind |-> "maxBuffer", code |-> NoExit, stdout |-> <<>>],
     [kind |-> "signal", code |-> NoExit, stdout |-> <<>>]}

ListOutcomes ==
    {[kind |-> "exit", code |-> 0, stdout |-> s] : s \in Stdouts} \cup ExecaFailures

\* execa with the default reject: true
ExecaRejects(out) == ~(out.kind = "exit" /\ out.code = 0)

\* The parsing block of listImages / listContainers and the record built
\* from it.  A JSON.parse failure is caught: the raw text is kept.
ParseCaught(format, quiet, stdout) ==
    LET lines == NonEmptyLines(stdout)
    IN  format = "json" /\ ~quiet /\ \E i \in 1..Len(lines) : ~JsonValid(lines[i])

\* A record whose count is the number of lines, blank ones included.
listRecord_CountAllLines(tool, format, quiet, out) ==
    [NoResult EXCEPT
        !.tool = tool, !.hasOk = TRUE, !.ok = TRUE, !.exitCode = out.code,
        !.text = trim(out.stdout), !.count = Len(split(trim(out.stdout))),
        !.stdout = trim(out.stdout), !.procExit = out.code]

listRecord(tool, format, quiet, out) ==
    LET lines == NonEmptyLines(out.stdout)
        caught == ParseCaught(format, quiet, out.stdout)
        isArr == format = "json" /\ ~quiet /\ ~caught
        items == IF isArr THEN [i \in 1..Len(lines) |-> JsonParse(lines[i])] ELSE <<>>
    IN  [NoResult EXCEPT
            !.tool = tool, !.hasOk = TRUE, !.ok = TRUE, !.exitCode = out.code,
            !.parseError = caught, !.isArray = isArr, !.items = items,
            !.text = IF isArr THEN <<>> ELSE trim(out.stdout),
            !.count = IF isArr THEN Len(items) ELSE Len(lines),
            !.stdout = trim(out.stdout), !.procExit = out.code]

\* tools/listImages.ts after the await: a rejection is rethrown.
listImagesResult(format, quiet, out) ==
    IF ExecaRejects(out)
    THEN [Throw("listImages", "Error") EXCEPT !.procFailed = TRUE, !.procExit = out.code]
    ELSE listRecord("listImages", format, quiet, out)

\* tools/listContainers.ts after the await: a rejection returns {error}.
listContainersResult(format, quiet, out) ==
    IF ExecaRejects(out)
    THEN [NoResult EXCEPT !.tool = "listContainers", !.error = "Error",
                          !.procFailed = TRUE, !.procExit = out.code]
    ELSE listRecord("listContainers", format, quiet, out)

ContainerArgs ==
    {NoArg, StringArg(""), StringArg("c1"), ArrayArg(<<>>), ArrayArg(<<"c1", "c2">>)}

\* !containers: undefined and the empty string are falsy, an array is not.
\* The argument was left out, or is an empty string or an empty list.
MissingArg(arg) == arg \in {NoArg, StringArg(""), ArrayArg(<<>>)}

Falsy(arg) == arg.kind = "undefined" \/ (arg.kind = "string" /\ arg.items[1] = "")

\* Array.isArray(containers) ? containers : [containers]
AsList(arg) == arg.items

\* list.map((c) => shellEscape(c)).join(" ")
RECURSIVE EscapeAll(_)
EscapeAll(list) ==
    IF list = <<>> THEN <<>>
    ELSE <<shellEscape("", Head(list))>> \o EscapeAll(Tail(list))

\* getContainerStats: the message of the validation error, "" when valid.
getContainerStatsInvalid(containers_) ==
    IF Falsy(containers_) THEN "containers is required"
    ELSE IF Len(AsList(containers_)) = 0 THEN "at least one container must be specified"
    ELSE ""

\* getContainerStats: the command string.
getContainerStatsCmd(o, timeout, noStream, all, format, containerList) ==
    <<Word("timeout"), Raw("", ToString(timeout) \o "s")>>
    \o InlineDockerCmd(o)
    \o <<Word("stats")>>
    \o (IF noStream THEN <<Word("--no-stream")>> ELSE <<>>)
    \o (IF all THEN <<Word("--all")>> ELSE <<>>)
    \o formatFlag(format)
    \o EscapeAll(containerList)

\* getContainerStats after the await: a JSON.parse failure is thrown, and
\* like a rejection of execa is rethrown by the outer catch.
getContainerStatsResult(format, out, containerList) ==
    IF ExecaRejects(out)
    THEN [Throw("getContainerStats", "Error") EXCEPT
              !.procFailed = TRUE, !.procExit = out.code]
    ELSE IF ParseCaught(format, FALSE, out.stdout)
    THEN [Throw("getContainerStats", "Error parsing JSON output") EXCEPT
              !.parseError = TRUE, !.procExit = out.code]
    ELSE [listRecord("getContainerStats", format, FALSE, out) EXCEPT
              !.containers = containerList]

\* tools/getContainerLogs.ts: the command string.
getContainerLogsCmd(o, timeout, containerName, follow, timestamps, since, until, tail, details) ==
    <<Word("timeout"), Raw("", ToString(timeout) \o "s")>>
    \o InlineDockerCmd(o)
    \o <<Word("logs")>>
    \o (IF follow THEN <<Word("--follow")>> ELSE <<>>)
    \o (IF timestamps THEN <<Word("--timestamps")>> ELSE <<>>)
    \o (IF Truthy(since) THEN <<Word("--since"), shellEscape("", since)>> ELSE <<>>)
    \o (IF Truthy(until) THEN <<Word("--until"), shellEscape("", until)>> ELSE <<>>)
    \o <<Word("--tail"), shellEscape("", ToString(tail))>>
    \o (IF details THEN <<Word("--details")>> ELSE <<>>)
    \o <<shellEscape("", containerName)>>

\* tools/getContainerLogs.ts after the await: logs = stdout.trim(),
\* lineCount = logs.split("\n").length; a rejection of execa is caught and
\* thrown again.
getContainerLogsResult(out) ==
    IF ExecaRejects(out)
    THEN [Throw("getContainerLogs", "Error") EXCEPT
              !.procFailed = TRUE, !.procExit = out.code]
    ELSE LET logs == trim(out.stdout)
             logLines == split(logs)
         IN  [NoResult EXCEPT
                 !.tool = "getContainerLogs", !.hasOk = TRUE, !.ok = TRUE,
                 !.exitCode = out.code, !.text = logs, !.count = Len(logLines),
                 !.stdout = trim(out.stdout), !.procExit = out.code]

\* tools/authenticateRegistry.ts: the command string.
authenticateRegistryCmd(o, timeout, server, username, password, email, passwordStdin) ==
    <<Word("timeout"), Raw("", ToString(timeout) \o "s")>>
    \o InlineDockerCmd(o)
    \o <<Word("login"), shellEscape("", server), Word("-u"), shellEscape("", username)>>
    \o (IF ~passwordStdin THEN <<Word("-p"), shellEscape("", password)>> ELSE <<>>)
    \o (IF Truthy(email) THEN <<Word("--email"), shellEscape("", email)>> ELSE <<>>)

\* tools/authenticateRegistry.ts: the two lines written before the await.
authenticateRegistryLogged(o, server, username) ==
    << <<Word("Authenticating to registry"), Raw("", server)>>,
       <<Word("Executing:")>> \o InlineDockerCmd(o)
           \o <<Word("login"), Raw("", server), Word("-u"), Raw("", username),
                Word("[password hidden]")>> >>

\* error.shortMessage of execa, which error.message starts with: the
\* reason of the failure followed by the command that was run.
execaMessage(cmd) == <<Word("Command failed:")>> \o cmd

\* A dockerStack that wants a compose file for every action.
dockerStackInvalid_ComposeAlways(action, stackName, composeFile) ==
    IF ~Truthy(action) \/ ~Truthy(stackName) THEN "action and stackName are required"
    ELSE IF ~Truthy(composeFile) THEN "composeFile required for deploy"
    ELSE IF action \notin {"deploy", "remove", "ps"} THEN "Unknown action"
    ELSE ""

\* tools/dockerStack.ts: the message of the error thrown before the
\* subprocess is spawned, "" when the arguments are accepted.
dockerStackInvalid(action, stackName, composeFile) ==
    IF ~Truthy(action) \/ ~Truthy(stackName) THEN "action and stackName are required"
    ELSE IF action = "deploy" THEN
        IF ~Truthy(composeFile) THEN "composeFile required for deploy" ELSE ""
    ELSE IF action = "remove" \/ action = "ps" THEN ""
    ELSE "Unknown action"

\* tools/dockerStack.ts: the command string of an accepted call.
dockerStackCmd(o, timeout, action, stackName, composeFile) ==
    <<Word("timeout"), Raw("", ToString(timeout) \o "s")>>
    \o InlineDockerCmd(o)
    \o (IF action = "deploy"
        THEN <<Word("stack deploy"), Word("-c"), shellEscape("", composeFile)>>
        ELSE IF action = "remove" THEN <<Word("stack rm")>>
        ELSE <<Word("stack ps")>>)
    \o <<shellEscape("", stackName)>>

\* A validation that lets an empty list of containers through.
stopContainerInvalid_AcceptsEmptyList(containers_) ==
    IF Falsy(containers_) THEN "containers is required" ELSE ""

\* tools/stopContainer.ts: the message of the validation error, "" when the
\* arguments are accepted.
stopContainerInvalid(containers_) ==
    IF Falsy(containers_) THEN "containers is required"
    ELSE IF Len(AsList(containers_)) = 0 THEN "at least one container must be specified"
    ELSE ""

\* tools/stopContainer.ts: the command string.
stopContainerToolCmd(o, timeout, time, containerList) ==
    <<Word("timeout"), Raw("", ToString(timeout) \o "s")>>
    \o buildDockerCmd(o)
    \o <<Word("stop")>>
    \o (IF time # 10 THEN <<Word("-t"), shellEscape("", ToString(time))>> ELSE <<>>)
    \o EscapeAll(containerList)

\* tools/stopContainer.ts after the await: the rejection of execa is not
\* caught; a clean exit gives the record.
stopContainerToolResult(out, containerList) ==
    IF ExecaRejects(out)
    THEN [Throw("stopContainer", "Command failed") EXCEPT
              !.procFailed = TRUE, !.procExit = out.code]
    ELSE [NoResult EXCEPT !.tool = "stopContainer", !.hasOk = TRUE, !.ok = TRUE,
                          !.exitCode = out.code, !.stdout = trim(out.stdout),
                          !.procExit = out.code, !.containers = containerList]

\* A start command with the identifiers ahead of the flags.
startContainerCmd_FlagsLast(o, timeout, attach, interactive, containerList) ==
    <<Word("timeout"), Raw("", ToString(timeout) \o "s")>>
    \o InlineDockerCmd(o)
    \o <<Word("start")>>
    \o EscapeAll(containerList)
    \o (IF attach THEN <<Word("-a")>> ELSE <<>>)
    \o (IF interactive THEN <<Word("-i")>> ELSE <<>>)

\* tools/startContainer.ts: the command string.
startContainerCmd(o, timeout, attach, interactive, containerList) ==
    <<Word("timeout"), Raw("", ToString(timeout) \o "s")>>
    \o InlineDockerCmd(o)
    \o <<Word("start")>>
    \o (IF attach THEN <<Word("-a")>> ELSE <<>>)
    \o (IF interactive THEN <<Word("-i")>> ELSE <<>>)
    \o EscapeAll(containerList)

\* tools/startContainer.ts after the await: the rejection of execa is not
\* caught; a clean exit gives the record.
startContainerResult(out, containerList) ==
    IF ExecaRejects(out)
    THEN [Throw("startContainer", "Command failed") EXCEPT
              !.procFailed = TRUE, !.procExit = out.code]
    ELSE [NoResult EXCEPT !.tool = "startContainer", !.hasOk = TRUE, !.ok = TRUE,
                          !.exitCode = out.code, !.stdout = trim(out.stdout),
                          !.procExit = out.code, !.containers = containerList]

\* tools/removeContainer.ts: the command string.
removeContainerToolCmd(o, timeout, force, volumes, link, containerList) ==
    <<Word("timeout"), Raw("", ToString(timeout) \o "s")>>
    \o InlineDockerCmd(o)
    \o <<Word("rm")>>
    \o (IF force THEN <<Word("-f")>> ELSE <<>>)
    \o (IF volumes THEN <<Word("-v")>> ELSE <<>>)
    \o (IF link THEN <<Word("-l")>> ELSE <<>>)
    \o EscapeAll(containerList)

\* tools/removeContainer.ts after the await: the rejection of execa is
\* caught and thrown again with the name of the tool in front.
removeContainerToolResult(out, containerList) ==
    IF ExecaRejects(out)
    THEN [Throw("removeContainer", "Command failed") EXCEPT
              !.procFailed = TRUE, !.procExit = out.code]
    ELSE [NoResult EXCEPT !.tool = "removeContainer", !.hasOk = TRUE, !.ok = TRUE,
                          !.exitCode = out.code, !.stdout = trim(out.stdout),
                          !.procExit = out.code, !.containers = containerList]

---------------------------------------------------------------------------
(* The sandbox provider *)

MaxInflight == 2

\* Container ids are text, as the runtime prints them.
Handles == {<<"c", "1">>, <<"c", "2">>}
NoHandle == <<>>

Commands == {"echo a", "exit 3"}

\* SandboxOptions given to createContainer: none, or all of them.
SandboxOptionSets ==
    {[image |-> Undefined, workingDir |-> Undefined, environment |-> <<>>,
      timeoutGiven |-> FALSE, timeout |-> 0],
     [image |-> "node:20", workingDir |-> "/app", environment |-> Env(MaxEnv),
      timeoutGiven |-> TRUE, timeout |-> 10]}

\* createContainer: the execa timeout option, timeout * 1000 (default 30)
createTimeoutMs(opts) == (IF opts.timeoutGiven THEN opts.timeout ELSE 30) * 1000

\* environment entries: -e shellEscape(key=value), one per entry
RECURSIVE EnvFlags(_)
EnvFlags(env) ==
    IF env = <<>> THEN <<>>
    ELSE <<Word("-e"), shellEscape("", Head(env))>> \o EnvFlags(Tail(env))

\* createContainer: the command string
\* A createContainer that talks to the local daemon whatever the service says.
createContainerCmd_LocalDocker(o, opts) ==
    <<Word("docker"), Word("run"), Word("-d"),
      shellEscape("", IF opts.image = Undefined THEN "ubuntu:latest" ELSE opts.image),
      Word("sleep"), Word("infinity")>>

createContainerCmd(o, opts) ==
    buildDockerCmd(o) \o <<Word("run"), Word("-d")>>
    \o (IF Truthy(opts.workingDir)
        THEN <<Word("-w"), shellEscape("", opts.workingDir)>> ELSE <<>>)
    \o EnvFlags(opts.environment)
    \o <<shellEscape("", IF opts.image = Undefined THEN "ubuntu:latest" ELSE opts.image),
         Word("sleep"), Word("infinity")>>

\* executeCommand: the command string
executeCommandCmd(o, containerId, command) ==
    buildDockerCmd(o)
    \o <<Word("exec"), shellEscape("", containerId), Word("sh"), Word("-c"),
         shellEscape("", command)>>

\* stopContainer: the command string
stopContainerCmd(o, containerId) ==
    buildDockerCmd(o) \o <<Word("stop"), shellEscape("", containerId)>>

\* getLogs: the command string
getLogsCmd(o, containerId) ==
    buildDockerCmd(o) \o <<Word("logs"), shellEscape("", containerId)>>

\* A remove that does not force.
removeContainerCmd_NoForce(o, containerId) ==
    buildDockerCmd(o) \o <<Word("rm"), shellEscape("", containerId)>>

\* removeContainer: the command string
removeContainerCmd(o, containerId) ==
    buildDockerCmd(o) \o <<Word("rm"), Word("-f"), shellEscape("", containerId)>>

---------------------------------------------------------------------------
(* The container runtime, as the docker command line drives it *)

SandboxSubcommands == {"run", "exec", "stop", "logs", "rm"}

SubPos(cmd) == CHOOSE i \in 1..Len(cmd) : cmd[i].flag \in SandboxSubcommands
Sub(cmd) == cmd[SubPos(cmd)].flag

\* The container named on the command line: the first value after the
\* subcommand.
Target(cmd) ==
    LET i == CHOOSE j \in (SubPos(cmd) + 1)..Len(cmd) :
                /\ cmd[j].flag = ""
                /\ \A k \in (SubPos(cmd) + 1)..(j - 1) : cmd[k].flag # ""
    IN  cmd[i].val

Forced(cmd) == \E i \in (SubPos(cmd) + 1)..Len(cmd) : cmd[i].flag = "-f"

\* What one run of the docker command line does: its exit code, its output,
\* the container its error message names, and the runtime state it leaves.
Ran(code, out, ref, cs, as) ==
    [code |-> code, stdout |-> out, errRef |-> ref, containers |-> cs, assigned |-> as]

Refused(ref, cs, as) == Ran(1, <<>>, ref, cs, as)

\* The inner command run by exec in a running container.
Inner(command, cs, as) ==
    IF command = "echo a" THEN Ran(0, <<"a", "\n">>, NoHandle, cs, as)
    ELSE Ran(3, <<>>, NoHandle, cs, as)

\* The runs the runtime allows for cmd in state (cs, as).
RuntimeRuns(cmd, cs, as) ==
    LET sub == Sub(cmd)
        h == Target(cmd)
        st == IF h \in Handles THEN cs[h] ELSE "absent"
    IN  IF sub = "run" THEN
            {Ran(0, id \o <<"\n">>, NoHandle, [cs EXCEPT ![id] = "running"], as \cup {id}) :
                id \in Handles \ as}
            \cup {Ran(125, <<>>, NoHandle, cs, as)}
        ELSE IF sub = "exec" THEN
            {IF st = "running" THEN Inner(cmd[Len(cmd)].val, cs, as) ELSE Refused(h, cs, as)}
        ELSE IF sub = "stop" THEN
            IF st = "running" THEN {Ran(0, h \o <<"\n">>, NoHandle, [cs EXCEPT ![h] = "stopped"], as)}
            ELSE IF st = "stopped" THEN {Ran(0, h \o <<"\n">>, NoHandle, cs, as), Refused(h, cs, as)}
            ELSE {Refused(h, cs, as)}
        ELSE IF sub = "logs" THEN
            {IF st = "absent" THEN Refused(h, cs, as) ELSE Ran(0, <<"x", "\n">>, NoHandle, cs, as)}
        ELSE \* rm
            IF st = "stopped" \/ (st = "running" /\ Forced(cmd))
            THEN {Ran(0, h \o <<"\n">>, NoHandle, [cs EXCEPT ![h] = "absent"], as)}
            ELSE IF st = "absent" /\ Forced(cmd)
            \* A forced remove of a container that does not exist: the docker
            \* client reports the error and, from release 20.10 on, exits 0;
            \* earlier releases exit 1.
            THEN {Refused(h, cs, as), Ran(0, <<>>, h, cs, as)}
            ELSE {Refused(h, cs, as)}

\* A capture that keeps the final newline.
StripFinalNewline_Keep(s) == s

\* execa strips one final newline from the captured output.
StripFinalNewline(s) ==
    IF s # <<>> /\ s[Len(s)] = "\n" THEN SubSeq(s, 1, Len(s) - 1) ELSE s

\* How the subprocess of a sandbox call ends, as execa reports it, with the
\* runtime state it leaves.  A run that completes reports the exit code; a
\* subprocess killed on the way (a signal, execa's timeout) reports no exit
\* code, whether or not the runtime had already acted.
SandboxOutcomes(cmd, cs, as) ==
    {[kind |-> "exit", code |-> r.code, stdout |-> StripFinalNewline(r.stdout),
      errRef |-> r.errRef, containers |-> r.containers, assigned |-> r.assigned] :
        r \in RuntimeRuns(cmd, cs, as)}
    \cup {[kind |-> "signal", code |-> NoExit, stdout |-> <<>>, errRef |-> NoHandle,
           containers |-> r.containers, assigned |-> r.assigned] :
        r \in RuntimeRuns(cmd, cs, as)}
    \cup {[kind |-> "signal", code |-> NoExit, stdout |-> <<>>, errRef |-> NoHandle,
           containers |-> cs, assigned |-> as]}

---------------------------------------------------------------------------
(* Sandbox provider calls: what each returns once its subprocess ended *)

\* A call in flight.  afterRemoval notes that, when the call was made, its
\* caller had already seen create, stop and remove succeed on the handle.
Call(op, cmd, containerId, timeoutMs, seen) ==
    [op |-> op, cmd |-> cmd, handle |-> containerId, timeoutMs |-> timeoutMs,
     spawned |-> 1,
     afterRemoval |-> seen = [handle |-> containerId, stage |-> "removedAfterStop"]]

NoLast ==
    [op |-> "none", handle |-> NoHandle, pre |-> "absent", post |-> "absent",
     kind |-> "", code |-> NoExit, spawned |-> 0, afterRemoval |-> FALSE,
     rejected |-> FALSE,
     exitCode |-> NoExit, stdout |-> <<>>, errRef |-> NoHandle,
     containerId |-> NoHandle, status |-> ""]

\* A create call that resolves whatever the subprocess did.
createContainerRejects_Never(out) == FALSE

\* createContainer awaits execa with the default reject: true.
createContainerRejects(out) == ExecaRejects(out)

\* createContainer after the await: {containerId: stdout.trim(), status}
createContainerResult(out) ==
    IF createContainerRejects(out)
    THEN [NoLast EXCEPT !.rejected = TRUE]
    ELSE [NoLast EXCEPT !.containerId = trim(out.stdout), !.status = "running"]

\* exitCode || 0: an undefined exit code becomes 0.
executeCommandExitCode(out) ==
    IF out.code = NoExit \/ out.code = 0 THEN 0 ELSE out.code

\* executeCommand after the await, run with reject: false; the catch
\* branch answers exitCode 1 should execa itself throw.
executeCommandResult(out) ==
    IF out.kind = "error"
    THEN [NoLast EXCEPT !.exitCode = 1]
    ELSE [NoLast EXCEPT !.stdout = out.stdout, !.errRef = out.errRef,
                        !.exitCode = executeCommandExitCode(out)]

\* stopContainer after the await
stopContainerResult(out) == [NoLast EXCEPT !.rejected = ExecaRejects(out)]

\* getLogs after the await: {logs: stdout}
getLogsResult(out) ==
    IF ExecaRejects(out) THEN [NoLast EXCEPT !.rejected = TRUE]
    ELSE [NoLast EXCEPT !.stdout = out.stdout]

\* removeContainer awaits execa with the default reject: true.
removeContainerRejects(out) == ExecaRejects(out)

\* removeContainer after the await
removeContainerResult(out) == [NoLast EXCEPT !.rejected = removeContainerRejects(out)]

SandboxResult(c, out) ==
    IF c.op = "createContainer" THEN createContainerResult(out)
    ELSE IF c.op = "executeCommand" THEN executeCommandResult(out)
    ELSE IF c.op = "stopContainer" THEN stopContainerResult(out)
    ELSE IF c.op = "getLogs" THEN getLogsResult(out)
    ELSE removeContainerResult(out)

\* The container a settled call was about: its argument, or for a create
\* the container the runtime made (NoHandle when it made none).
Subject(c, out, as) ==
    IF c.op # "createContainer" THEN c.handle
    ELSE IF out.assigned = as THEN NoHandle
    ELSE CHOOSE id \in out.assigned \ as : TRUE

\* The caller's view of the handle it was given last: what it has seen
\* succeed on it, after result r of call c.
NoTrail == [handle |-> NoHandle, stage |-> "none"]

Seen(c, r, was) ==
    IF r.rejected THEN was
    ELSE IF c.op = "createContainer" THEN [handle |-> r.containerId, stage |-> "created"]
    ELSE IF c.handle # was.handle THEN was
    ELSE IF c.op = "stopContainer" /\ was.stage = "created" THEN [was EXCEPT !.stage = "stopped"]
    ELSE IF c.op = "removeContainer" /\ was.stage = "stopped"
        THEN [was EXCEPT !.stage = "removedAfterStop"]
    ELSE IF c.op = "removeContainer" /\ was.stage = "created"
        THEN [was EXCEPT !.stage = "removed"]
    ELSE was

---------------------------------------------------------------------------
(* Specification SpecBuild: the command prefix builders applied to every   *)
(* connection configuration.                                               *)

InitBuild ==
    /\ options \in DockerConfigSchema
    /\ cmdline = <<>>
    /\ builder = "none"
    /\ pending = Idle
    /\ spawns = 0
    /\ result = NoResult
    /\ containers = [h \in Handles |-> "absent"]
    /\ assigned = {}
    /\ calls = EmptyBag
    /\ last = NoLast
    /\ trail = NoTrail
    /\ app = NoApp

\* dockerService.buildDockerCmd()
BuildDockerCmd ==
    /\ cmdline' = buildDockerCmd(options)
    /\ builder' = "DockerService"
    /\ UNCHANGED <<options, toolVars, sandboxVars, app>>

\* this.buildDockerCmd() of the self-contained DockerSandboxProvider
ProviderBuildDockerCmd ==
    /\ cmdline' = SandboxBuildDockerCmd(options)
    /\ builder' = "DockerSandboxProvider"
    /\ UNCHANGED <<options, toolVars, sandboxVars, app>>

NextBuild == BuildDockerCmd \/ ProviderBuildDockerCmd

SpecBuild == InitBuild /\ [][NextBuild]_vars

---------------------------------------------------------------------------
(* Specification SpecTools: tool calls.  A call runs up to its await       *)
(* (validation, command construction, spawn) and is settled when the       *)
(* subprocess ends.                                                        *)

FullTls == [present |-> TRUE, verify |-> TRUE, caCert |-> "/certs/ca.pem",
            cert |-> "/certs/cert.pem", key |-> "/certs/key.pem"]
ToolConfigs ==
    {[host |-> h, tls |-> t] :
        h \in {Undefined, "tcp://10.0.0.5:2376"},
        t \in {NoTls, FullTls, [FullTls EXCEPT !.cert = Undefined]}}

InitTools ==
    /\ options \in ToolConfigs
    /\ cmdline = <<>>
    /\ builder = "none"
    /\ pending = Idle
    /\ spawns = 0
    /\ result = NoResult
    /\ containers = [h \in Handles |-> "absent"]
    /\ assigned = {}
    /\ calls = EmptyBag
    /\ last = NoLast
    /\ trail = NoTrail
    /\ app = NoApp

\* tools/dockerRun.ts execute, up to the await
DockerRun ==
    /\ pending = Idle /\ result = NoResult
    /\ \E image \in {"", "ubuntu:latest"}, cmd \in {"", "echo hi"}, env \in Envs,
          workdir \in {Undefined, "/app"}, mountSrc \in {Undefined, "/src"},
          baseOk \in BOOLEAN, given \in BOOLEAN, t \in TimeoutInputs :
        LET timeoutSeconds == IF given THEN t ELSE 60
            timeout == dockerRunTimeout(timeoutSeconds)
        IN  IF ~Truthy(image) \/ ~Truthy(cmd)
            THEN /\ result' = [Throw("dockerRun", "image and cmd required") EXCEPT
                                   !.missing = image = "" \/ cmd = ""]
                 /\ pending' = Idle
                 /\ spawns' = 0
            ELSE /\ pending' = [Idle EXCEPT
                        !.tool = "dockerRun",
                        !.cmd = dockerRunFinalCommand(timeout,
                                    dockerRunArgs(options, image, cmd, env, workdir, mountSrc, baseOk)),
                        !.supplied = timeoutSeconds,
                        !.timeoutSeconds = timeout,
                        !.missing = image = "" \/ cmd = ""]
                 /\ spawns' = 1
                 /\ result' = NoResult
    /\ UNCHANGED <<options, buildVars, sandboxVars>>

\* dockerRun execute of the agent-based package, up to the await
AgentDockerRun ==
    /\ pending = Idle /\ result = NoResult
    /\ \E image \in {"", "ubuntu:latest"}, cmd \in {"", "echo hi"},
          given \in BOOLEAN, t \in TimeoutInputs :
        LET timeoutSeconds == IF given THEN t ELSE 60
            timeout == dockerRunTimeout(timeoutSeconds)
        IN  IF ~Truthy(image) \/ ~Truthy(cmd)
            THEN /\ result' = [Throw("agentDockerRun", "image and cmd required") EXCEPT
                                   !.missing = image = "" \/ cmd = ""]
                 /\ pending' = Idle
                 /\ spawns' = 0
            ELSE /\ pending' = [Idle EXCEPT
                        !.tool = "agentDockerRun",
                        !.cmd = agentDockerRunFinalCommand(timeout,
                                    agentDockerRunArgs(options, image, cmd)),
                        !.supplied = timeoutSeconds,
                        !.timeoutSeconds = timeout,
                        !.missing = image = "" \/ cmd = ""]
                 /\ spawns' = 1
                 /\ result' = NoResult
    /\ UNCHANGED <<options, buildVars, sandboxVars>>

\* dockerRun execute, after the await
DockerRunSettle ==
    /\ pending.tool \in {"dockerRun", "agentDockerRun"}
    /\ \E r \in RunOutcomes : result' = dockerRunResult(pending.tool, r)
    /\ pending' = Idle
    /\ UNCHANGED <<options, buildVars, spawns, sandboxVars>>

\* tools/listImages.ts execute, up to the await
ListImages ==
    /\ pending = Idle /\ result = NoResult
    /\ \E fl \in ListFlagSets, quiet \in BOOLEAN,
          format \in Formats, given \in BOOLEAN, t \in TimeoutInputs :
        LET timeout == listTimeout(IF given THEN t ELSE 30)
        IN  pending' = [Idle EXCEPT
                !.tool = "listImages",
                !.supplied = IF given THEN t ELSE 30,
                !.timeoutSeconds = timeout,
                !.cmd = listImagesCmd(options, timeout, fl.all, quiet, fl.extra, fl.filter, format),
                !.timeoutMs = timeout * 1000,
                !.format = format, !.quiet = quiet]
    /\ spawns' = 1
    /\ result' = NoResult
    /\ UNCHANGED <<options, buildVars, sandboxVars>>

\* tools/listImages.ts execute, after the await
ListImagesSettle ==
    /\ pending.tool = "listImages"
    /\ \E out \in ListOutcomes :
        result' = listImagesResult(pending.format, pending.quiet, out)
    /\ pending' = Idle
    /\ UNCHANGED <<options, buildVars, spawns, sandboxVars>>

\* tools/listContainers.ts execute, up to the await
ListContainers ==
    /\ pending = Idle /\ result = NoResult
    /\ \E fl \in ListFlagSets, quiet \in BOOLEAN,
          format \in Formats, given \in BOOLEAN, t \in TimeoutInputs :
        LET timeout == listTimeout(IF given THEN t ELSE 30)
        IN  pending' = [Idle EXCEPT
                !.tool = "listContainers",
                !.supplied = IF given THEN t ELSE 30,
                !.timeoutSeconds = timeout,
                !.cmd = listContainersCmd(options, timeout, fl.all, quiet, fl.extra, fl.filter, format),
                !.timeoutMs = timeout * 1000,
                !.format = format, !.quiet = quiet]
    /\ spawns' = 1
    /\ result' = NoResult
    /\ UNCHANGED <<options, buildVars, sandboxVars>>

\* tools/listContainers.ts execute, after the await
ListContainersSettle ==
    /\ pending.tool = "listContainers"
    /\ \E out \in ListOutcomes :
        result' = listContainersResult(pending.format, pending.quiet, out)
    /\ pending' = Idle
    /\ UNCHANGED <<options, buildVars, spawns, sandboxVars>>

\* getContainerStats execute, up to the await
GetContainerStats ==
    /\ pending = Idle /\ result = NoResult
    /\ \E containers_ \in ContainerArgs, fl \in ListFlagSets, format \in Formats,
          given \in BOOLEAN, t \in TimeoutInputs :
        LET timeoutSeconds == IF given THEN t ELSE 10
            timeout == getContainerStatsTimeout(timeoutSeconds)
            invalid == getContainerStatsInvalid(containers_)
        IN  IF invalid # ""
            THEN /\ result' = [Throw("getContainerStats", invalid) EXCEPT
                                   !.missing = MissingArg(containers_)]
                 /\ pending' = Idle
                 /\ spawns' = 0
            ELSE /\ pending' = [Idle EXCEPT
                        !.tool = "getContainerStats",
                        !.cmd = getContainerStatsCmd(options, timeout, ~fl.extra, fl.all,
                                                     format, AsList(containers_)),
                        !.supplied = timeoutSeconds,
                        !.timeoutSeconds = timeout,
                        !.timeoutMs = timeout * 1000,
                        !.format = format,
                        !.missing = MissingArg(containers_),
                        !.arg = containers_,
                        !.containerList = AsList(containers_)]
                 /\ spawns' = 1
                 /\ result' = NoResult
    /\ UNCHANGED <<options, buildVars, sandboxVars>>

\* getContainerStats execute, after the await
GetContainerStatsSettle ==
    /\ pending.tool = "getContainerStats"
    /\ \E out \in ListOutcomes :
        result' = getContainerStatsResult(pending.format, out, pending.containerList)
    /\ pending' = Idle
    /\ UNCHANGED <<options, buildVars, spawns, sandboxVars>>

\* tools/stopContainer.ts execute, up to the await
StopContainerTool ==
    /\ pending = Idle /\ result = NoResult
    /\ \E containers_ \in ContainerArgs, time \in {10, 0},
          given \in BOOLEAN, t \in TimeoutInputs :
        LET timeoutSeconds == IF given THEN t ELSE 30
            timeout == stopContainerTimeout(timeoutSeconds)
            invalid == stopContainerInvalid(containers_)
        IN  IF invalid # ""
            THEN /\ result' = [Throw("stopContainer", invalid) EXCEPT
                                   !.missing = MissingArg(containers_)]
                 /\ pending' = Idle
                 /\ spawns' = 0
            ELSE /\ pending' = [Idle EXCEPT
                        !.tool = "stopContainer",
                        !.cmd = stopContainerToolCmd(options, timeout, time,
                                                     AsList(containers_)),
                        !.supplied = timeoutSeconds,
                        !.timeoutSeconds = timeout,
                        !.timeoutMs = timeout * 1000,
                        !.missing = MissingArg(containers_),
                        !.arg = containers_,
                        !.containerList = AsList(containers_)]
                 /\ spawns' = 1
                 /\ result' = NoResult
    /\ UNCHANGED <<options, buildVars, sandboxVars>>

\* tools/stopContainer.ts execute, after the await
StopContainerToolSettle ==
    /\ pending.tool = "stopContainer"
    /\ \E out \in ListOutcomes :
        result' = stopContainerToolResult(out, pending.containerList)
    /\ pending' = Idle
    /\ UNCHANGED <<options, buildVars, spawns, sandboxVars>>

\* tools/startContainer.ts execute, up to the await
StartContainer ==
    /\ pending = Idle /\ result = NoResult
    /\ \E containers_ \in ContainerArgs, attach \in BOOLEAN, interactive \in BOOLEAN,
          timeoutSeconds \in {30, 2000} :
        LET timeout == startContainerTimeout(timeoutSeconds)
            invalid == stopContainerInvalid(containers_)
        IN  IF invalid # ""
            THEN /\ result' = [Throw("startContainer", invalid) EXCEPT
                                   !.missing = MissingArg(containers_)]
                 /\ pending' = Idle
                 /\ spawns' = 0
            ELSE /\ pending' = [Idle EXCEPT
                        !.tool = "startContainer",
                        !.cmd = startContainerCmd(options, timeout, attach, interactive,
                                                  AsList(containers_)),
                        !.supplied = timeoutSeconds,
                        !.timeoutSeconds = timeout,
                        !.timeoutMs = timeout * 1000,
                        !.missing = MissingArg(containers_),
                        !.arg = containers_,
                        !.containerList = AsList(containers_)]
                 /\ spawns' = 1
                 /\ result' = NoResult
    /\ UNCHANGED <<options, buildVars, sandboxVars>>

\* tools/startContainer.ts execute, after the await
StartContainerSettle ==
    /\ pending.tool = "startContainer"
    /\ \E out \in ListOutcomes :
        result' = startContainerResult(out, pending.containerList)
    /\ pending' = Idle
    /\ UNCHANGED <<options, buildVars, spawns, sandboxVars>>

\* tools/removeContainer.ts execute, up to the await
RemoveContainerTool ==
    /\ pending = Idle /\ result = NoResult
    /\ \E containers_ \in ContainerArgs, force \in BOOLEAN, volumes \in BOOLEAN,
          link \in BOOLEAN, timeoutSeconds \in {30, 2000} :
        LET timeout == removeContainerTimeout(timeoutSeconds)
            invalid == stopContainerInvalid(containers_)
        IN  IF invalid # ""
            THEN /\ result' = [Throw("removeContainer", invalid) EXCEPT
                                   !.missing = MissingArg(containers_)]
                 /\ pending' = Idle
                 /\ spawns' = 0
            ELSE /\ pending' = [Idle EXCEPT
                        !.tool = "removeContainer",
                        !.cmd = removeContainerToolCmd(options, timeout, force, volumes,
                                                       link, AsList(containers_)),
                        !.supplied = timeoutSeconds,
                        !.timeoutSeconds = timeout,
                        !.timeoutMs = timeout * 1000,
                        !.missing = MissingArg(containers_),
                        !.arg = containers_,
                        !.containerList = AsList(containers_)]
                 /\ spawns' = 1
                 /\ result' = NoResult
    /\ UNCHANGED <<options, buildVars, sandboxVars>>

\* tools/removeContainer.ts execute, after the await
RemoveContainerToolSettle ==
    /\ pending.tool = "removeContainer"
    /\ \E out \in ListOutcomes :
        result' = removeContainerToolResult(out, pending.containerList)
    /\ pending' = Idle
    /\ UNCHANGED <<options, buildVars, spawns, sandboxVars>>

\* tools/getContainerLogs.ts execute, up to the await
GetContainerLogs ==
    /\ pending = Idle /\ result = NoResult
    /\ \E containerName \in {"", "c1"}, follow \in BOOLEAN, timestamps \in BOOLEAN,
          since \in {Undefined, "1h"}, until \in {Undefined, "2h"},
          tail \in {100, 5}, details \in BOOLEAN, timeoutSeconds \in {30, 2000} :
        LET timeout == getContainerLogsTimeout(timeoutSeconds)
        IN  IF ~Truthy(containerName)
            THEN /\ result' = [Throw("getContainerLogs", "name is required") EXCEPT
                                   !.missing = TRUE]
                 /\ pending' = Idle
                 /\ spawns' = 0
            ELSE /\ pending' = [Idle EXCEPT
                        !.tool = "getContainerLogs",
                        !.cmd = getContainerLogsCmd(options, timeout, containerName, follow,
                                                    timestamps, since, until, tail, details),
                        !.supplied = timeoutSeconds,
                        !.timeoutSeconds = timeout,
                        !.timeoutMs = timeout * 1000]
                 /\ spawns' = 1
                 /\ result' = NoResult
    /\ UNCHANGED <<options, buildVars, sandboxVars>>

\* tools/getContainerLogs.ts execute, after the await
GetContainerLogsSettle ==
    /\ pending.tool = "getContainerLogs"
    /\ \E out \in ListOutcomes :
        result' = getContainerLogsResult(out)
    /\ pending' = Idle
    /\ UNCHANGED <<options, buildVars, spawns, sandboxVars>>

\* tools/authenticateRegistry.ts execute, up to the await
AuthenticateRegistry ==
    /\ pending = Idle /\ result = NoResult
    /\ \E server \in {"", "reg.io"}, username \in {"", "bob"},
          password \in {"", "s3cret", "hunter2"}, email \in {Undefined, "b@reg.io"},
          passwordStdin \in BOOLEAN, given \in BOOLEAN, t \in TimeoutInputs :
        LET timeoutSeconds == IF given THEN t ELSE 30
            timeout == authenticateRegistryTimeout(timeoutSeconds)
            required == <<Word("server, username, and password are required")>>
            missing == server = "" \/ username = "" \/ (password = "" /\ ~passwordStdin)
        IN  IF ~Truthy(server) \/ ~Truthy(username) \/ (~Truthy(password) /\ ~passwordStdin)
            THEN /\ result' = [Throw("authenticateRegistry", "server, username, and password are required")
                                   EXCEPT !.missing = missing, !.secret = password,
                                          !.emitted = <<required>>,
                                          !.thrownText = required]
                 /\ pending' = Idle
                 /\ spawns' = 0
            ELSE /\ pending' = [Idle EXCEPT
                        !.tool = "authenticateRegistry",
                        !.cmd = authenticateRegistryCmd(options, timeout, server, username,
                                                        password, email, passwordStdin),
                        !.supplied = timeoutSeconds,
                        !.timeoutSeconds = timeout,
                        !.timeoutMs = timeout * 1000,
                        !.missing = missing,
                        !.server = server,
                        !.secret = password,
                        !.emitted = authenticateRegistryLogged(options, server, username),
                        !.username = username,
                        !.passwordStdin = passwordStdin,
                        !.input = IF passwordStdin THEN password ELSE Undefined]
                 /\ spawns' = 1
                 /\ result' = NoResult
    /\ UNCHANGED <<options, buildVars, sandboxVars>>

\* tools/authenticateRegistry.ts execute, after the await
AuthenticateRegistrySettle ==
    /\ pending.tool = "authenticateRegistry"
    /\ \E out \in ListOutcomes :
        result' =
            IF ExecaRejects(out)
            THEN [Throw("authenticateRegistry", "Command failed") EXCEPT
                      !.procFailed = TRUE, !.procExit = out.code,
                      !.secret = pending.secret,
                      !.emitted = Append(pending.emitted,
                                         <<Word("Error:")>> \o execaMessage(pending.cmd)),
                      !.thrownText = execaMessage(pending.cmd)]
            ELSE [NoResult EXCEPT
                      !.tool = "authenticateRegistry", !.hasOk = TRUE, !.ok = TRUE,
                      !.exitCode = out.code, !.stdout = trim(out.stdout),
                      !.procExit = out.code,
                      !.secret = pending.secret,
                      !.emitted = Append(pending.emitted,
                                         <<Word("Successfully authenticated to registry"),
                                           Raw("", pending.server)>>)]
    /\ pending' = Idle
    /\ UNCHANGED <<options, buildVars, spawns, sandboxVars>>

\* tools/dockerStack.ts execute, up to the await
DockerStack ==
    /\ pending = Idle /\ result = NoResult
    /\ \E action \in {"", "deploy", "remove", "ps", "restart"},
          stackName \in {"", "web"},
          composeFile \in {Undefined, "", "stack.yml"},
          given \in BOOLEAN, t \in TimeoutInputs :
        LET timeoutSeconds == IF given THEN t ELSE 60
            timeout == dockerStackTimeout(timeoutSeconds)
            invalid == dockerStackInvalid(action, stackName, composeFile)
        IN  IF invalid # ""
            THEN /\ result' = [Throw("dockerStack", invalid) EXCEPT
                                   !.missing = action = "" \/ stackName = "",
                                   !.action = action, !.composeFile = composeFile]
                 /\ pending' = Idle
                 /\ spawns' = 0
            ELSE /\ pending' = [Idle EXCEPT
                        !.tool = "dockerStack",
                        !.cmd = dockerStackCmd(options, timeout, action, stackName,
                                               composeFile),
                        !.supplied = timeoutSeconds,
                        !.timeoutSeconds = timeout,
                        !.timeoutMs = timeout * 1000,
                        !.missing = action = "" \/ stackName = "",
                        !.action = action, !.composeFile = composeFile]
                 /\ spawns' = 1
                 /\ result' = NoResult
    /\ UNCHANGED <<options, buildVars, sandboxVars>>

\* tools/dockerStack.ts execute, after the await: a rejection of execa is
\* rethrown, a clean exit gives the record.
DockerStackSettle ==
    /\ pending.tool = "dockerStack"
    /\ \E out \in ListOutcomes :
        result' =
            IF ExecaRejects(out)
            THEN [Throw("dockerStack", "Command failed") EXCEPT
                      !.procFailed = TRUE, !.procExit = out.code,
                      !.action = pending.action, !.composeFile = pending.composeFile]
            ELSE [NoResult EXCEPT
                      !.tool = "dockerStack", !.hasOk = TRUE, !.ok = TRUE,
                      !.exitCode = out.code, !.stdout = trim(out.stdout),
                      !.procExit = out.code,
                      !.action = pending.action, !.composeFile = pending.composeFile]
    /\ pending' = Idle
    /\ UNCHANGED <<options, buildVars, spawns, sandboxVars>>

\* The caller takes the settled result; the next call starts afresh.
TakeResult ==
    /\ pending = Idle /\ result # NoResult
    /\ result' = NoResult
    /\ spawns' = 0
    /\ UNCHANGED <<options, buildVars, pending, sandboxVars>>

NextTools ==
    \/ TakeResult
    \/ DockerRun
    \/ AgentDockerRun
    \/ DockerRunSettle
    \/ ListImages
    \/ ListImagesSettle
    \/ ListContainers
    \/ ListContainersSettle
    \/ GetContainerStats
    \/ GetContainerStatsSettle
    \/ StopContainerTool
    \/ StopContainerToolSettle
    \/ StartContainer
    \/ StartContainerSettle
    \/ GetContainerLogs
    \/ GetContainerLogsSettle
    \/ RemoveContainerTool
    \/ RemoveContainerToolSettle
    \/ AuthenticateRegistry
    \/ AuthenticateRegistrySettle
    \/ DockerStack
    \/ DockerStackSettle

SpecTools == InitTools /\ [][NextTools]_vars

---------------------------------------------------------------------------
(* Specification Spec: the sandbox provider against the runtime.  Each     *)
(* call runs up to its await and is settled when its subprocess ends.      *)

SandboxConfigs ==
    {[host |-> "tcp://10.0.0.5:2376", tls |-> FullTls]}

Init ==
    /\ options \in SandboxConfigs
    /\ cmdline = <<>>
    /\ builder = "none"
    /\ pending = Idle
    /\ spawns = 0
    /\ result = NoResult
    /\ containers = [h \in Handles |-> "absent"]
    /\ assigned = {}
    /\ calls = EmptyBag
    /\ last = NoLast
    /\ trail = NoTrail
    /\ app = NoApp

\* createContainer(options), up to the await
CreateContainer ==
    /\ BagCardinality(calls) < MaxInflight
    /\ \E opts \in SandboxOptionSets :
        calls' = calls (+) SetToBag({Call("createContainer",
                    createContainerCmd(options, opts), NoHandle, createTimeoutMs(opts), trail)})
    /\ UNCHANGED <<options, buildVars, toolVars, containers, assigned, last, trail>>

\* An executeCommand that waits while a call on the same container is in
\* flight.
ExecuteCommand_Exclusive ==
    /\ BagCardinality(calls) < MaxInflight
    /\ \E h \in Handles, command \in Commands :
        /\ \A c \in BagToSet(calls) : c.handle # h
        /\ calls' = calls (+) SetToBag({Call("executeCommand",
                    executeCommandCmd(options, h, command), h, 0, trail)})
    /\ UNCHANGED <<options, buildVars, toolVars, containers, assigned, last, trail>>

\* executeCommand(containerId, command), up to the await
ExecuteCommand ==
    /\ BagCardinality(calls) < MaxInflight
    /\ \E h \in Handles, command \in Commands :
        calls' = calls (+) SetToBag({Call("executeCommand",
                    executeCommandCmd(options, h, command), h, 0, trail)})
    /\ UNCHANGED <<options, buildVars, toolVars, containers, assigned, last, trail>>

\* stopContainer(containerId), up to the await
StopContainer ==
    /\ BagCardinality(calls) < MaxInflight
    /\ \E h \in Handles :
        calls' = calls (+) SetToBag({Call("stopContainer",
                    stopContainerCmd(options, h), h, 0, trail)})
    /\ UNCHANGED <<options, buildVars, toolVars, containers, assigned, last, trail>>

\* getLogs(containerId), up to the await
GetLogs ==
    /\ BagCardinality(calls) < MaxInflight
    /\ \E h \in Handles :
        calls' = calls (+) SetToBag({Call("getLogs", getLogsCmd(options, h), h, 0, trail)})
    /\ UNCHANGED <<options, buildVars, toolVars, containers, assigned, last, trail>>

\* removeContainer(containerId), up to the await
RemoveContainer ==
    /\ BagCardinality(calls) < MaxInflight
    /\ \E h \in Handles :
        calls' = calls (+) SetToBag({Call("removeContainer",
                    removeContainerCmd(options, h), h, 0, trail)})
    /\ UNCHANGED <<options, buildVars, toolVars, containers, assigned, last, trail>>

\* The subprocess of one call ends and the call returns or rejects.
Settle ==
    \E c \in BagToSet(calls) :
    \E out \in SandboxOutcomes(c.cmd, containers, assigned) :
        LET r == SandboxResult(c, out)
            subj == Subject(c, out, assigned)
        IN  /\ containers' = out.containers
            /\ assigned' = out.assigned
            /\ calls' = calls (-) SetToBag({c})
            /\ last' = [r EXCEPT
                          !.op = c.op, !.handle = subj, !.spawned = c.spawned,
                          !.afterRemoval = c.afterRemoval,
                          !.kind = out.kind, !.code = out.code,
                          !.pre = IF subj = NoHandle THEN "absent" ELSE containers[subj],
                          !.post = IF subj = NoHandle THEN "absent" ELSE out.containers[subj]]
            /\ trail' = Seen(c, r, trail)
            /\ UNCHANGED <<options, buildVars, toolVars>>

Next ==
    \/ CreateContainer
    \/ ExecuteCommand
    \/ StopContainer
    \/ GetLogs
    \/ RemoveContainer
    \/ Settle

Spec == Init /\ [][Next]_vars

---------------------------------------------------------------------------
(* Specification SpecInstall: the plugin is installed into an application  *)
(* whose ChatService and SandboxService become available before or after   *)
(* the installation.                                                       *)

InitInstall ==
    /\ options \in SandboxConfigs
    /\ cmdline = <<>>
    /\ builder = "none"
    /\ pending = Idle
    /\ spawns = 0
    /\ result = NoResult
    /\ containers = [h \in Handles |-> "absent"]
    /\ assigned = {}
    /\ calls = EmptyBag
    /\ last = NoLast
    /\ trail = NoTrail
    /\ \E docker \in BOOLEAN, sandboxConfig \in SandboxServiceConfigs :
        app = [NoApp EXCEPT !.docker = docker, !.sandboxConfig = sandboxConfig]

\* install(app, config)
Install ==
    /\ ~app.installed
    /\ app' =
        IF ~app.docker THEN [app EXCEPT !.installed = TRUE]
        ELSE [app EXCEPT
                !.installed = TRUE,
                !.chatWaiter = "waiting",
                !.services = app.services + 1,
                !.sandboxWaiter = IF app.sandboxConfig.present THEN "waiting" ELSE "none"]
    /\ UNCHANGED <<options, cmdline, builder, toolVars, sandboxVars>>

\* The application gets its ChatService.
ChatServiceAvailable ==
    /\ ~app.chat
    /\ app' = [app EXCEPT !.chat = TRUE]
    /\ UNCHANGED <<options, cmdline, builder, toolVars, sandboxVars>>

\* The application gets its SandboxService.
SandboxServiceAvailable ==
    /\ ~app.sandbox
    /\ app' = [app EXCEPT !.sandbox = TRUE]
    /\ UNCHANGED <<options, cmdline, builder, toolVars, sandboxVars>>

\* The callback given to waitForService(ChatService, ...)
AddTools ==
    /\ app.chatWaiter = "waiting" /\ app.chat
    /\ app' = [app EXCEPT !.chatWaiter = "called",
                          !.toolsAdded = app.toolsAdded + 1]
    /\ UNCHANGED <<options, cmdline, builder, toolVars, sandboxVars>>

\* The callback given to waitForService(SandboxService, ...)
RegisterProviders ==
    /\ app.sandboxWaiter = "waiting" /\ app.sandbox
    /\ app' = [app EXCEPT
                 !.sandboxWaiter = "called",
                 !.registered = registerProviders(app.sandboxConfig, app.registered,
                                                  app.services)]
    /\ UNCHANGED <<options, cmdline, builder, toolVars, sandboxVars>>

NextInstall ==
    \/ Install
    \/ ChatServiceAvailable
    \/ SandboxServiceAvailable
    \/ AddTools
    \/ RegisterProviders

SpecInstall == InitInstall /\ [][NextInstall]_vars

---------------------------------------------------------------------------
(* Specification SpecTimeouts: the timeout each operation computes from    *)
(* the timeoutSeconds its caller supplies and hands to its subprocess.     *)
(* One call is looked at at a time: a step replaces the call made before.  *)

\* The call of a tool up to its execa call: the command starts with
\* `timeout <timeout>s` and execa is given timeout * 1000 milliseconds.
\* A call that hands the invoker the timeout as the caller supplied it.
TimedCall_SuppliedToInvoker(tool, timeoutSeconds, timeout) ==
    [Idle EXCEPT !.tool = tool,
                 !.cmd = <<Word("timeout"), Raw("", ToString(timeout) \o "s")>>,
                 !.supplied = timeoutSeconds,
                 !.timeoutSeconds = timeout,
                 !.timeoutMs = timeoutSeconds * 1000]

TimedCall(tool, timeoutSeconds, timeout) ==
    [Idle EXCEPT !.tool = tool,
                 !.cmd = <<Word("timeout"), Raw("", ToString(timeout) \o "s")>>,
                 !.supplied = timeoutSeconds,
                 !.timeoutSeconds = timeout,
                 !.timeoutMs = timeout * 1000]

InitTimeouts ==
    /\ options \in SandboxConfigs
    /\ cmdline = <<>>
    /\ builder = "none"
    /\ pending = Idle
    /\ spawns = 0
    /\ result = NoResult
    /\ containers = [h \in Handles |-> "absent"]
    /\ assigned = {}
    /\ calls = EmptyBag
    /\ last = NoLast
    /\ trail = NoTrail
    /\ app = NoApp

\* buildImage execute: timeoutSeconds = 300 by default
BuildImageTimeout ==
    /\ \E given \in BOOLEAN, t \in SuppliedTimeouts :
        LET timeoutSeconds == IF given THEN t ELSE 300
        IN  pending' = TimedCall("buildImage", timeoutSeconds, buildImageTimeout(timeoutSeconds))
    /\ calls' = EmptyBag
    /\ UNCHANGED <<options, buildVars, spawns, result, containers, assigned, last, trail>>

\* pushImage execute: timeoutSeconds = 300 by default
PushImageTimeout ==
    /\ \E given \in BOOLEAN, t \in SuppliedTimeouts :
        LET timeoutSeconds == IF given THEN t ELSE 300
        IN  pending' = TimedCall("pushImage", timeoutSeconds, pushImageTimeout(timeoutSeconds))
    /\ calls' = EmptyBag
    /\ UNCHANGED <<options, buildVars, spawns, result, containers, assigned, last, trail>>

\* dockerStack execute: timeoutSeconds = 60 by default
DockerStackTimeout ==
    /\ \E given \in BOOLEAN, t \in SuppliedTimeouts :
        LET timeoutSeconds == IF given THEN t ELSE 60
        IN  pending' = TimedCall("dockerStack", timeoutSeconds, dockerStackTimeout(timeoutSeconds))
    /\ calls' = EmptyBag
    /\ UNCHANGED <<options, buildVars, spawns, result, containers, assigned, last, trail>>

\* getContainerLogs execute: timeoutSeconds = 30 by default
GetContainerLogsTimeout ==
    /\ \E given \in BOOLEAN, t \in SuppliedTimeouts :
        LET timeoutSeconds == IF given THEN t ELSE 30
        IN  pending' = TimedCall("getContainerLogs", timeoutSeconds, getContainerLogsTimeout(timeoutSeconds))
    /\ calls' = EmptyBag
    /\ UNCHANGED <<options, buildVars, spawns, result, containers, assigned, last, trail>>

\* execInContainer execute: timeoutSeconds = 30 by default
ExecInContainerTimeout ==
    /\ \E given \in BOOLEAN, t \in SuppliedTimeouts :
        LET timeoutSeconds == IF given THEN t ELSE 30
        IN  pending' = TimedCall("execInContainer", timeoutSeconds, execInContainerTimeout(timeoutSeconds))
    /\ calls' = EmptyBag
    /\ UNCHANGED <<options, buildVars, spawns, result, containers, assigned, last, trail>>

\* pruneImages execute: timeoutSeconds = 60 by default
PruneImagesTimeout ==
    /\ \E given \in BOOLEAN, t \in SuppliedTimeouts :
        LET timeoutSeconds == IF given THEN t ELSE 60
        IN  pending' = TimedCall("pruneImages", timeoutSeconds, pruneImagesTimeout(timeoutSeconds))
    /\ calls' = EmptyBag
    /\ UNCHANGED <<options, buildVars, spawns, result, containers, assigned, last, trail>>

\* pruneVolumes execute: timeoutSeconds = 60 by default
PruneVolumesTimeout ==
    /\ \E given \in BOOLEAN, t \in SuppliedTimeouts :
        LET timeoutSeconds == IF given THEN t ELSE 60
        IN  pending' = TimedCall("pruneVolumes", timeoutSeconds, pruneVolumesTimeout(timeoutSeconds))
    /\ calls' = EmptyBag
    /\ UNCHANGED <<options, buildVars, spawns, result, containers, assigned, last, trail>>

\* getContainerStats execute: timeoutSeconds = 10 by default
GetContainerStatsTimeout ==
    /\ \E given \in BOOLEAN, t \in SuppliedTimeouts :
        LET timeoutSeconds == IF given THEN t ELSE 10
        IN  pending' = TimedCall("getContainerStats", timeoutSeconds, getContainerStatsTimeout(timeoutSeconds))
    /\ calls' = EmptyBag
    /\ UNCHANGED <<options, buildVars, spawns, result, containers, assigned, last, trail>>

\* startContainer execute: timeoutSeconds = 30 by default
StartContainerTimeout ==
    /\ \E given \in BOOLEAN, t \in SuppliedTimeouts :
        LET timeoutSeconds == IF given THEN t ELSE 30
        IN  pending' = TimedCall("startContainer", timeoutSeconds, startContainerTimeout(timeoutSeconds))
    /\ calls' = EmptyBag
    /\ UNCHANGED <<options, buildVars, spawns, result, containers, assigned, last, trail>>

\* stopContainer execute: timeoutSeconds = 30 by default
StopContainerToolTimeout ==
    /\ \E given \in BOOLEAN, t \in SuppliedTimeouts :
        LET timeoutSeconds == IF given THEN t ELSE 30
        IN  pending' = TimedCall("stopContainer", timeoutSeconds, stopContainerTimeout(timeoutSeconds))
    /\ calls' = EmptyBag
    /\ UNCHANGED <<options, buildVars, spawns, result, containers, assigned, last, trail>>

\* removeContainer execute: timeoutSeconds = 30 by default
RemoveContainerToolTimeout ==
    /\ \E given \in BOOLEAN, t \in SuppliedTimeouts :
        LET timeoutSeconds == IF given THEN t ELSE 30
        IN  pending' = TimedCall("removeContainer", timeoutSeconds, removeContainerTimeout(timeoutSeconds))
    /\ calls' = EmptyBag
    /\ UNCHANGED <<options, buildVars, spawns, result, containers, assigned, last, trail>>

\* removeImage execute: timeoutSeconds = 30 by default
RemoveImageTimeout ==
    /\ \E given \in BOOLEAN, t \in SuppliedTimeouts :
        LET timeoutSeconds == IF given THEN t ELSE 30
        IN  pending' = TimedCall("removeImage", timeoutSeconds, removeImageTimeout(timeoutSeconds))
    /\ calls' = EmptyBag
    /\ UNCHANGED <<options, buildVars, spawns, result, containers, assigned, last, trail>>

\* tagImage execute: timeoutSeconds = 30 by default
TagImageTimeout ==
    /\ \E given \in BOOLEAN, t \in SuppliedTimeouts :
        LET timeoutSeconds == IF given THEN t ELSE 30
        IN  pending' = TimedCall("tagImage", timeoutSeconds, tagImageTimeout(timeoutSeconds))
    /\ calls' = EmptyBag
    /\ UNCHANGED <<options, buildVars, spawns, result, containers, assigned, last, trail>>

\* createNetwork execute: timeoutSeconds = 30 by default
CreateNetworkTimeout ==
    /\ \E given \in BOOLEAN, t \in SuppliedTimeouts :
        LET timeoutSeconds == IF given THEN t ELSE 30
        IN  pending' = TimedCall("createNetwork", timeoutSeconds, createNetworkTimeout(timeoutSeconds))
    /\ calls' = EmptyBag
    /\ UNCHANGED <<options, buildVars, spawns, result, containers, assigned, last, trail>>

\* authenticateRegistry execute: timeoutSeconds = 30 by default
AuthenticateRegistryTimeout ==
    /\ \E given \in BOOLEAN, t \in SuppliedTimeouts :
        LET timeoutSeconds == IF given THEN t ELSE 30
        IN  pending' = TimedCall("authenticateRegistry", timeoutSeconds, authenticateRegistryTimeout(timeoutSeconds))
    /\ calls' = EmptyBag
    /\ UNCHANGED <<options, buildVars, spawns, result, containers, assigned, last, trail>>

\* dockerRun execute: timeoutSeconds = 60 by default, then `|| 60`
DockerRunTimeout ==
    /\ \E given \in BOOLEAN, t \in SuppliedTimeouts :
        LET timeoutSeconds == IF given THEN t ELSE 60
        IN  pending' = TimedCall("dockerRun", timeoutSeconds, dockerRunTimeout(timeoutSeconds))
    /\ calls' = EmptyBag
    /\ UNCHANGED <<options, buildVars, spawns, result, containers, assigned, last, trail>>

\* listImages and listContainers execute: timeoutSeconds = 30 by default
ListTimeout ==
    /\ \E tool \in {"listImages", "listContainers"}, given \in BOOLEAN,
          t \in SuppliedTimeouts :
        LET timeoutSeconds == IF given THEN t ELSE 30
        IN  pending' = TimedCall(tool, timeoutSeconds, listTimeout(timeoutSeconds))
    /\ calls' = EmptyBag
    /\ UNCHANGED <<options, buildVars, spawns, result, containers, assigned, last, trail>>

\* SandboxOptions.timeout values a caller may give to createContainer.
SandboxTimeoutOptions ==
    {[image |-> Undefined, workingDir |-> Undefined, environment |-> <<>>,
      timeoutGiven |-> g, timeout |-> IF g THEN t ELSE 0] :
        g \in BOOLEAN, t \in SuppliedTimeouts}

\* createContainer(options), up to the await, for every options.timeout
CreateContainerTimeout ==
    /\ \E opts \in SandboxTimeoutOptions :
        calls' = SetToBag({Call("createContainer",
                    createContainerCmd(options, opts), NoHandle, createTimeoutMs(opts), trail)})
    /\ pending' = Idle
    /\ UNCHANGED <<options, buildVars, spawns, result, containers, assigned, last, trail>>

NextTimeouts ==
    \/ BuildImageTimeout
    \/ PushImageTimeout
    \/ DockerStackTimeout
    \/ GetContainerLogsTimeout
    \/ ExecInContainerTimeout
    \/ PruneImagesTimeout
    \/ PruneVolumesTimeout
    \/ GetContainerStatsTimeout
    \/ StartContainerTimeout
    \/ StopContainerToolTimeout
    \/ RemoveContainerToolTimeout
    \/ RemoveImageTimeout
    \/ TagImageTimeout
    \/ CreateNetworkTimeout
    \/ AuthenticateRegistryTimeout
    \/ DockerRunTimeout
    \/ ListTimeout
    \/ CreateContainerTimeout

SpecTimeouts == InitTimeouts /\ [][NextTimeouts]_vars

---------------------------------------------------------------------------
(* Properties *)

\* A configured path is present when it is a non-empty string.
PathPresent(p) == p # Undefined /\ p # ""

\* The position of the single occurrence of the literal f in cmd.
Pos(cmd, f) == CHOOSE i \in Positions(cmd, f) : TRUE

Once(cmd, f) == Cardinality(Positions(cmd, f)) = 1

GlobalFlags == <<"-H", "--tls", "--tlscacert=", "--tlscert=", "--tlskey=">>
Subcommands == {"run", "images", "ps"}

\* In cmd, the global flags that occur stand in the order of GlobalFlags.
InGlobalOrder(cmd) ==
    \A i, j \in 1..Len(GlobalFlags) :
        (i < j /\ Has(cmd, GlobalFlags[i]) /\ Has(cmd, GlobalFlags[j]))
            => \A p \in Positions(cmd, GlobalFlags[i]),
                  q \in Positions(cmd, GlobalFlags[j]) : p < q

\* A step in which a sandbox call settled.
Settled == BagCardinality(calls') < BagCardinality(calls)

C1_Results ==
    /\ last.op # "none" => last.spawned = 1
    /\ (last.op = "createContainer" /\ ~last.rejected)
          => (last.handle # NoHandle /\ last.pre = "absent" /\ last.post = "running")
    /\ (last.op = "stopContainer" /\ ~last.rejected)
          => (last.pre \in {"running", "stopped"} /\ last.post = "stopped")
    /\ (last.op = "removeContainer" /\ ~last.rejected) => last.post = "absent"
    /\ (last.op = "removeContainer" /\ last.kind = "exit" /\ last.pre = "running")
          => (~last.rejected /\ last.post = "absent")

C1_Step ==
    \A h \in Handles :
        containers'[h] # containers[h] =>
            /\ Settled
            /\ \/ /\ containers[h] = "absent" /\ containers'[h] = "running"
                  /\ last'.op = "createContainer" /\ last'.handle = h
               \/ /\ containers[h] = "running" /\ containers'[h] = "stopped"
                  /\ last'.op = "stopContainer" /\ last'.handle = h
               \/ /\ containers[h] \in {"running", "stopped"} /\ containers'[h] = "absent"
                  /\ last'.op = "removeContainer" /\ last'.handle = h

\* C1: a container changes state only along absent -> running (by a create),
\* running -> stopped (by a stop) and running or stopped -> absent (by a
\* remove); a create, stop or remove that succeeds has made its transition;
\* a remove that the runtime answers for a running container succeeds
\* without a stop; and every call spawns its subprocess whatever the state
\* of the handle.
C1_Lifecycle == [](C1_Results) /\ [][C1_Step]_vars

\* A remove succeeded on a running container that its caller never stopped.
C1_Witness ==
    /\ last.op = "removeContainer" /\ ~last.rejected
    /\ last.pre = "running" /\ last.post = "absent"
    /\ trail = [handle |-> last.handle, stage |-> "removed"]

\* C2: executeCommand never throws, and answers exitCode 0 only when the
\* subprocess completed with exit code 0; every failure answers a non-zero
\* exitCode.
C2_ExitCodeOfInnerCommand ==
    last.op = "executeCommand" =>
        /\ ~last.rejected
        /\ last.exitCode = 0 => (last.kind = "exit" /\ last.code = 0)

C3_Results ==
    last.op = "createContainer" =>
        /\ last.spawned = 1
        /\ last.rejected <=> ~(last.kind = "exit" /\ last.code = 0)
        /\ ~last.rejected =>
              /\ last.containerId \in Handles
              /\ last.containerId = last.handle
              /\ last.status = "running"
              /\ last.post = "running"
        /\ last.rejected => (last.containerId = NoHandle /\ last.status = "")

C3_Step ==
    Settled =>
        /\ BagCardinality(calls') = BagCardinality(calls) - 1
        /\ Cardinality(assigned' \ assigned) <= 1
        /\ last'.op # "createContainer" => assigned' = assigned

\* C3: a createContainer call spawns one subprocess and settles once; when
\* the subprocess succeeds the call returns the trimmed stdout, which is the
\* id of the container the runtime made, with status running; when it fails
\* the call rejects and returns no handle; no call makes two containers.
C3_CreateOnce == [](C3_Results) /\ [][C3_Step]_vars

\* A create succeeded and returned the id of a running container.
C3_Witness ==
    /\ last.op = "createContainer" /\ ~last.rejected
    /\ last.containerId \in Handles
    /\ last.kind = "exit"
    /\ trail = [handle |-> last.containerId, stage |-> "created"]

\* C4: once create, stop and remove have succeeded on a handle, an
\* executeCommand on that handle spawns its subprocess and fails, with an
\* error that names the handle.
C4_ExecAfterRemoveFails ==
    (last.op = "executeCommand" /\ last.afterRemoval) =>
        /\ last.spawned = 1
        /\ last.exitCode # 0
        /\ last.errRef = last.handle

C6_OkIffCleanExit ==
    (result.tool # "none" /\ ~result.thrown) =>
        ((result.hasOk /\ result.ok)
            <=> (result.procExit = 0 /\ ~result.procFailed /\ ~result.parseError))

\* C7: when the address is the default local socket (left out or given
\* explicitly) and verification is off, the prefix has neither -H nor --tls;
\* for every other address the prefix has -H followed by that address.
C7_DefaultSocketOmitsHost ==
    builder # "none" =>
        /\ (options.host \in {Undefined, DefaultSocket} /\ ~TlsVerify(options))
              => (~Has(cmdline, "-H") /\ ~Has(cmdline, "--tls"))
        /\ (Truthy(options.host) /\ options.host # DefaultSocket)
              => \E i \in 1..(Len(cmdline) - 1) :
                    cmdline[i].flag = "-H" /\ cmdline[i + 1].val = options.host

\* C8: with verification on and all three certificate paths present, the
\* command line has exactly one --tls, --tlscacert=, --tlscert= and
\* --tlskey=, in that order, each certificate flag carrying its path.
C8_TlsFlagsOnceInOrder ==
    (pending.tool # "none" /\ TlsVerify(options)
        /\ PathPresent(options.tls.caCert) /\ PathPresent(options.tls.cert)
        /\ PathPresent(options.tls.key)) =>
        LET c == pending.cmd
        IN  /\ Once(c, "--tls") /\ Once(c, "--tlscacert=")
            /\ Once(c, "--tlscert=") /\ Once(c, "--tlskey=")
            /\ Pos(c, "--tls") < Pos(c, "--tlscacert=")
            /\ Pos(c, "--tlscacert=") < Pos(c, "--tlscert=")
            /\ Pos(c, "--tlscert=") < Pos(c, "--tlskey=")
            /\ c[Pos(c, "--tlscacert=")].val = options.tls.caCert
            /\ c[Pos(c, "--tlscert=")].val = options.tls.cert
            /\ c[Pos(c, "--tlskey=")].val = options.tls.key

\* C9: no TLS flag is emitted when verification is off, whatever paths are
\* configured; when it is on, --tls is emitted and each certificate flag is
\* emitted exactly when its own path is present.
C9_TlsFlagsIndependent ==
    builder # "none" =>
        /\ Has(cmdline, "--tls") <=> TlsVerify(options)
        /\ Has(cmdline, "--tlscacert=")
              <=> (TlsVerify(options) /\ PathPresent(options.tls.caCert))
        /\ Has(cmdline, "--tlscert=")
              <=> (TlsVerify(options) /\ PathPresent(options.tls.cert))
        /\ Has(cmdline, "--tlskey=")
              <=> (TlsVerify(options) /\ PathPresent(options.tls.key))

\* A prefix was built with verification on, the CA certificate and the key
\* configured and the client certificate missing.
C9_Witness ==
    /\ builder = "DockerService"
    /\ TlsVerify(options)
    /\ PathPresent(options.tls.caCert)
    /\ ~PathPresent(options.tls.cert)
    /\ PathPresent(options.tls.key)
    /\ Has(cmdline, "--tlscacert=") /\ ~Has(cmdline, "--tlscert=")
    /\ Has(cmdline, "--tlskey=")

\* C10: in every invocation the global flags stand before the subcommand,
\* in the order -H, --tls, --tlscacert=, --tlscert=, --tlskey=, and none
\* of -v, -w, -e stands before the subcommand.
C10_GlobalFlagsFirstInOrder ==
    pending.tool # "none" =>
        LET c == pending.cmd
            sub == CHOOSE i \in 1..Len(c) : c[i].flag \in Subcommands
        IN  /\ \A i \in 1..Len(GlobalFlags) :
                  \A p \in Positions(c, GlobalFlags[i]) : p < sub
            /\ InGlobalOrder(c)
            /\ \A f \in {"-v", "-w", "-e"} : \A p \in Positions(c, f) : p > sub

\* The ceiling documented for each operation.
DocumentedCeiling(tool) ==
    IF tool \in {"buildImage", "pushImage"} THEN 1800
    ELSE IF tool \in {"dockerRun", "dockerStack"} THEN 600
    ELSE IF tool \in {"getContainerLogs", "execInContainer", "pruneImages", "pruneVolumes"}
        THEN 300
    ELSE IF tool = "getContainerStats" THEN 60
    ELSE 120

\* C11: whatever timeoutSeconds is supplied, the timeout handed to the
\* subprocess (the `timeout <n>s` prefix and the invoker's option) is at
\* least 5 seconds; a supplied value below 5 is never passed through.
C11_TimeoutAtLeastFloor ==
    pending.tool # "none" =>
        /\ pending.timeoutSeconds >= 5
        /\ pending.timeoutMs >= 5000
        /\ pending.cmd[2].val = ToString(pending.timeoutSeconds) \o "s"
        /\ pending.supplied < 5 => pending.timeoutSeconds # pending.supplied

\* A build was called with a timeout of zero or less and runs under 5 s.
C11_Witness ==
    /\ pending.tool = "buildImage"
    /\ pending.supplied <= 0
    /\ pending.timeoutSeconds = 5

\* C12: whatever timeoutSeconds is supplied, the timeout handed to the
\* subprocess never exceeds the ceiling documented for the operation.
C12_TimeoutAtMostCeiling ==
    pending.tool # "none" =>
        /\ pending.timeoutSeconds <= DocumentedCeiling(pending.tool)
        /\ pending.timeoutMs <= DocumentedCeiling(pending.tool) * 1000

\* A push was called with a timeout above its ceiling and runs under 1800 s.
C12_Witness ==
    /\ pending.tool = "pushImage"
    /\ pending.supplied > 1800
    /\ pending.timeoutSeconds = 1800

\* C13: every createContainer subprocess is started under a positive timeout
\* that does not exceed the largest ceiling of any operation.
C13_CreateTimeoutClamped ==
    \A c \in BagToSet(calls) :
        c.op = "createContainer" => (c.timeoutMs > 0 /\ c.timeoutMs <= 1800 * 1000)

\* C14: every sandbox call in flight runs under a `timeout <n>s` prefix or
\* under a timeout enforced by the process invoker.
C14_EveryCallTimed ==
    \A c \in BagToSet(calls) :
        \/ c.cmd[1] = Word("timeout")
        \/ c.timeoutMs > 0

JsonStreamTools == {"listImages", "listContainers", "getContainerStats"}

\* C15: a JSON-stream call in which a non-empty line of stdout failed to
\* parse fails as a whole: it throws, and returns neither a list nor the
\* raw text in place of the list.
C15_ParseFailureFailsCall ==
    (result.tool \in JsonStreamTools /\ result.parseError) =>
        /\ result.thrown
        /\ ~result.hasOk
        /\ ~result.isArray /\ result.text = <<>>

\* Every line of the text is blank or one JSON object.
ValidJsonLines(text) ==
    LET lines == split(text)
    IN  \A i \in 1..Len(lines) : trim(lines[i]) = <<>> \/ JsonValid(lines[i])

\* The JSON objects of the text, in the order they stand in it.
ObjectsOf(text) == SelectSeq(text, LAMBDA ch : ch \in {"a", "b"})

C16_Step ==
    (/\ pending.tool \in JsonStreamTools
     /\ pending.format = "json" /\ ~pending.quiet
     /\ result'.tool = pending.tool
     /\ ~result'.thrown /\ result'.hasOk
     /\ ValidJsonLines(result'.stdout))
    => (/\ result'.isArray
        /\ result'.items = ObjectsOf(result'.stdout)
        /\ result'.count = Len(ObjectsOf(result'.stdout)))

\* C16: when stdout is valid JSON objects one per line, with blank lines
\* among or after them, the call returns exactly the objects of the
\* non-empty lines, in their order; blank lines add no element.
C16_BlankLinesIgnored == [][C16_Step]_vars

\* A list was returned for two objects with a blank line between them.
C16_Witness ==
    /\ result.tool = "listImages"
    /\ result.isArray
    /\ result.stdout = <<"a", "\n", "\n", "b">>
    /\ result.items = <<"a", "b">>

C18_FailureThrows ==
    /\ spawns <= 1
    /\ (result.tool # "none" /\ (result.procFailed \/ result.procExit \notin {0, NoExit}))
           => result.thrown

\* The text holds the value.
Mentions(text, value) == \E i \in 1..Len(text) : text[i].val = value

\* C19: the registry password is in no text authenticateRegistry emits to
\* the agent and in no message it throws, whether the login succeeds or
\* fails.
C19_PasswordNeverEmitted ==
    \A r \in {pending, result} :
        (r.tool = "authenticateRegistry" /\ r.secret # "") =>
            /\ \A i \in 1..Len(r.emitted) : ~Mentions(r.emitted[i], r.secret)
            /\ r = result => ~Mentions(result.thrownText, r.secret)

\* C20: every caller-supplied or configured value in the command of a tool
\* call went through shellEscape.  The first two words, timeout <n>s, hold
\* the clamped number and no text of the caller.
C20_ValuesShellEscaped ==
    \A i \in 3..Len(pending.cmd) :
        pending.cmd[i].val # "" => pending.cmd[i].esc

\* The words of a command line that stand before its subcommand.
Prefix(cmd) == SubSeq(cmd, 1, SubPos(cmd) - 1)

\* C21: no operation changes the connection configuration, and the prefix
\* of every call is the one the service derives from that configuration,
\* whatever calls were made, succeeded or failed before it.
C21_ConfigReadOnly ==
    /\ [](\A c \in BagToSet(calls) : Prefix(c.cmd) = buildDockerCmd(options))
    /\ [][options' = options]_vars

\* After a call was rejected, two calls of different operations are in
\* flight with the configured prefix.
C21_Witness ==
    /\ last.rejected
    /\ \E c, d \in BagToSet(calls) :
        /\ c.op = "createContainer" /\ d.op = "executeCommand"
        /\ Prefix(c.cmd) = Prefix(d.cmd)
        /\ Has(Prefix(c.cmd), "-H")

\* executeCommand starts a call on container h.
StartsExecOn(h) ==
    /\ ExecuteCommand
    /\ \E c \in BagToSet(calls') :
        /\ c.op = "executeCommand" /\ c.handle = h
        /\ CopiesIn(c, calls') = CopiesIn(c, calls) + 1

\* The calls in flight before a step are in flight after it, but for the
\* one that settled.
C22_Step ==
    /\ BagCardinality(calls') > BagCardinality(calls) => calls \sqsubseteq calls'
    /\ Settled =>
        /\ calls' \sqsubseteq calls
        /\ BagCardinality(calls') = BagCardinality(calls) - 1
        /\ last'.op = "executeCommand" =>
            /\ ~last'.rejected
            /\ last'.exitCode = (IF last'.code = NoExit THEN 0 ELSE last'.code)

\* C22: calls are not serialized.  Whatever calls are in flight, on the
\* same container or another, executeCommand on a container starts its
\* subprocess at once; starting or settling a call leaves the other calls in
\* flight as they are, and the result of a settled executeCommand is that of
\* its own subprocess.
C22_NoLocking ==
    /\ [](\A h \in Handles :
            BagCardinality(calls) < MaxInflight => ENABLED StartsExecOn(h))
    /\ [][C22_Step]_vars

\* One executeCommand has returned while another on the same container,
\* started before the first returned, is still in flight.
C22_Witness ==
    /\ last.op = "executeCommand" /\ last.handle \in Handles
    /\ BagCardinality(calls) = MaxInflight - 1
    /\ \E c \in BagToSet(calls) : c.op = "executeCommand" /\ c.handle = last.handle

\* The call that a Settle step takes out of flight.
SettledCall == CHOOSE c \in BagToSet(calls) : CopiesIn(c, calls') < CopiesIn(c, calls)

C23_Step ==
    (/\ Settled
     /\ SettledCall.op = "executeCommand"
     /\ SettledCall.cmd[Len(SettledCall.cmd)].val = "echo a"
     /\ last'.pre = "running"
     /\ last'.kind = "exit")
    => (/\ ~last'.rejected
        /\ last'.exitCode = 0
        /\ last'.errRef = NoHandle
        /\ last'.stdout = <<"a">>)

\* C23: on a container that createContainer made and that is running, an
\* executeCommand whose command echoes a returns, once its subprocess has
\* run, exit code 0, no error text and the stdout a, without the newline
\* echo ends it with.
C23_EchoRoundTrip == [][C23_Step]_vars

\* The caller created a container, and an echo in it has returned a.
C23_Witness ==
    /\ last.op = "executeCommand"
    /\ trail = [handle |-> last.handle, stage |-> "created"]
    /\ last.pre = "running" /\ last.kind = "exit"
    /\ last.exitCode = 0 /\ last.stdout = <<"a">>

\* Character i is the first one of its line that is not white space.
FirstInLine(text, i) ==
    /\ text[i] \notin Whitespace
    /\ \A j \in 1..(i - 1) :
        (\A k \in j..(i - 1) : text[k] # "\n") => text[j] \in Whitespace

\* The number of lines of the text that are not empty.
NonEmptyLineCount(text) == Cardinality({i \in 1..Len(text) : FirstInLine(text, i)})

\* C24: the count listImages and listContainers return is the number of
\* non-empty lines of stdout, in every format and in quiet mode: 0 for an
\* empty stdout, and the length of the list when stdout was parsed as JSON.
C24_CountIsNonEmptyLines ==
    (result.tool \in {"listImages", "listContainers"} /\ result.hasOk) =>
        /\ result.count = NonEmptyLineCount(result.stdout)
        /\ result.stdout = <<>> => result.count = 0
        /\ result.isArray => result.count = Len(result.items)

\* listContainers returned a text of two lines with a blank line between.
C24_Witness ==
    /\ result.tool = "listContainers" /\ result.hasOk /\ ~result.isArray
    /\ result.stdout = <<"x", "\n", "\n", "b">>
    /\ result.count = 2

\* The call whose state r is has had a subprocess run.
SubprocessRan(r) == r.procFailed \/ r.procExit # NoExit

\* C25: dockerStack wants composeFile for deploy only.  A deploy without it
\* and a call with an action other than deploy, remove and ps throw with no
\* subprocess spawned; a remove or ps of a named stack spawns stack rm /
\* stack ps with or without a composeFile.
C25_ComposeFileForDeployOnly ==
    /\ pending.tool = "dockerStack" =>
        /\ spawns = 1
        /\ pending.action \in {"deploy", "remove", "ps"}
        /\ pending.action = "deploy" =>
            (Truthy(pending.composeFile) /\ Has(pending.cmd, "stack deploy"))
        /\ pending.action = "remove" => Has(pending.cmd, "stack rm")
        /\ pending.action = "ps" => Has(pending.cmd, "stack ps")
    /\ result.tool = "dockerStack" =>
        /\ (result.action = "deploy" /\ ~Truthy(result.composeFile)) =>
            (result.thrown /\ spawns = 0 /\ ~SubprocessRan(result))
        /\ result.action \notin {"deploy", "remove", "ps"} =>
            (result.thrown /\ spawns = 0 /\ ~SubprocessRan(result))
        /\ (result.action \in {"remove", "ps"} /\ ~result.missing) =>
            (spawns = 1 /\ SubprocessRan(result))

\* A stack rm was run for a call that gave no compose file.
C25_Witness ==
    /\ result.tool = "dockerStack"
    /\ result.action = "remove" /\ result.composeFile = Undefined
    /\ spawns = 1 /\ result.hasOk

\* C26: in every tool call the seconds written after the timeout word of
\* the command are the seconds handed to the process invoker, for every
\* timeoutSeconds the caller supplies.
C26_PrefixEqualsInvokerTimeout ==
    pending.tool # "none" =>
        /\ pending.cmd[1] = Word("timeout")
        /\ pending.timeoutMs = pending.timeoutSeconds * 1000
        /\ pending.cmd[2].val = ToString(pending.timeoutSeconds) \o "s"

\* stopContainer called with a timeout far over its ceiling runs under
\* timeout 120s and an invoker timeout of 120000 ms.
C26_Witness ==
    /\ pending.tool = "stopContainer" /\ pending.supplied = 100000
    /\ pending.cmd[2].val = "120s" /\ pending.timeoutMs = 120000

\* Every callback that can run has run.
InstallSettled ==
    /\ app.installed
    /\ app.chatWaiter = "waiting" => ~app.chat
    /\ app.sandboxWaiter = "waiting" => ~app.sandbox

\* C27: without a docker configuration install registers nothing.  With
\* one, in whatever order the ChatService and the SandboxService come, one
\* DockerService is added, the tools are added at most once and once the
\* ChatService is there exactly once, and under each configured provider
\* name of type docker, and under no other, one DockerSandboxProvider is
\* registered once the SandboxService is there, holding that DockerService.
C27_InstallRegistersOnce ==
    /\ app.toolsAdded <= 1 /\ app.services <= 1
    /\ \A n \in ProviderNames :
        /\ Len(app.registered[n]) <= 1
        /\ \A i \in 1..Len(app.registered[n]) : app.registered[n][i] = 1
    /\ (app.installed /\ ~app.docker) =>
        /\ app.services = 0 /\ app.toolsAdded = 0
        /\ app.chatWaiter = "none" /\ app.sandboxWaiter = "none"
        /\ \A n \in ProviderNames : app.registered[n] = <<>>
    /\ (InstallSettled /\ app.docker) =>
        /\ app.services = 1
        /\ app.toolsAdded = (IF app.chat THEN 1 ELSE 0)
        /\ \A n \in ProviderNames :
            Len(app.registered[n]) =
                (IF /\ app.sandboxConfig.present /\ app.sandbox
                    /\ app.sandboxConfig.providers[n] = "docker"
                 THEN 1 ELSE 0)

\* Both services are there and both callbacks ran: the tools are added, one
\* provider of type docker is registered, the other name, of another type,
\* has none.
C27_Witness ==
    /\ InstallSettled /\ app.docker /\ app.chat /\ app.sandbox
    /\ app.sandboxConfig.providers = [n \in ProviderNames |->
                                        IF n = "box" THEN "docker" ELSE "other"]
    /\ app.toolsAdded = 1
    /\ app.registered["box"] = <<1>> /\ app.registered["alt"] = <<>>

ContainerTools == {"startContainer", "stopContainer", "removeContainer", "getContainerStats"}

\* The identifiers a call supplied, a single string as a list of one.
Supplied(arg) == IF arg.kind = "string" THEN <<arg.items[1]>> ELSE arg.items

\* The command ends with the identifiers ids, in this order, and holds none
\* of them before.
EndsWithOnce(cmd, ids) ==
    LET n == Len(ids)
        k == Len(cmd) - n
    IN  /\ k >= 0
        /\ \A i \in 1..n : cmd[k + i] = shellEscape("", ids[i])
        /\ \A j \in 1..k : \A i \in 1..n : cmd[j] # shellEscape("", ids[i])

C28_Step ==
    (pending.tool \in ContainerTools /\ result'.tool = pending.tool /\ ~result'.thrown)
        => result'.containers = Supplied(pending.arg)

\* C28: startContainer, stopContainer, removeContainer and getContainerStats
\* take one identifier given as a string as a list of one: the command ends
\* with the supplied identifiers, each once and in the supplied order, after
\* every flag, and the record of a call that succeeded has them as its
\* containers field.
C28_IdentifiersAfterFlags ==
    /\ [](pending.tool \in ContainerTools
            => EndsWithOnce(pending.cmd, Supplied(pending.arg)))
    /\ [][C28_Step]_vars

\* removeContainer, given the string c1, succeeded.
C28_Witness ==
    /\ result.tool = "removeContainer" /\ ~result.thrown /\ result.ok
    /\ result.containers = <<"c1">>

\* C29: authenticateRegistry spawns no subprocess when server, username or
\* password is missing or empty, whether or not passwordStdin is set; with
\* passwordStdin and a password, the password is not in the command and is
\* the standard input of the subprocess.
C29_PasswordRequiredAlways ==
    pending.tool = "authenticateRegistry" =>
        /\ pending.server # "" /\ pending.username # "" /\ pending.secret # ""
        /\ pending.passwordStdin =>
            /\ ~Mentions(pending.cmd, pending.secret)
            /\ pending.input = pending.secret

\* The number of newline-separated lines of a text, none for the empty text.
LineCount(text) ==
    IF text = <<>> THEN 0
    ELSE 1 + Cardinality({i \in 1..Len(text) : text[i] = "\n"})

\* C30: the lineCount getContainerLogs returns is the number of lines of the
\* trimmed logs it returns: 0 when the container wrote nothing, else the
\* number of newline-separated lines.
C30_LineCountOfLogs ==
    (result.tool = "getContainerLogs" /\ ~result.thrown)
        => result.count = LineCount(result.text)

=============================================================================
